---- MODULE Spec2Model ----
(***************************************************************************)
(* Name resolution of zen-free-models: display names scraped from a        *)
(* pricing table are resolved to canonical API identifiers, first through  *)
(* a language model and, as fallback, through normalized-key lookup.       *)
(* The scraper publishes the resolved identifiers as a JSON artifact and   *)
(* sync.sh patches the local opencode config from it.                      *)
(*                                                                         *)
(* A string is a sequence of one-character strings; a Set<string> is a     *)
(* duplicate-free sequence in insertion order; a Map<string,string> is a   *)
(* function whose domain is the set of keys.                               *)
(***************************************************************************)
EXTENDS Naturals, Sequences, FiniteSets

VARIABLES entry, apiIds, names, hasKey, pc, maps, candidates, attempt,
          requests, delays, lastErr, caught, error, llmMatches, result,
          maxRetries, response, invocations, messages,
          step, apiModelIds, freeModelNames, output, outputFile, exitCode,
          fetch,
          clock, cache, conf, lockDir, run, jq, node

\* one invocation of the matcher (src/matching/index.ts)
matchVars == <<entry, apiIds, names, hasKey, pc, maps, candidates, attempt,
               requests, delays, lastErr, caught, error, llmMatches, result,
               maxRetries, response, invocations, messages>>

\* one run of the scraper (src/scraper/src/index.ts)
scrapeVars == <<step, apiModelIds, freeModelNames, output, outputFile, exitCode,
                fetch>>

\* the files and the runs of sync.sh
syncVars == <<clock, cache, conf, lockDir, run, jq, node>>

vars == <<matchVars, scrapeVars, syncVars>>

(***************************************************************************)
(* Bounds of the model.                                                    *)
(***************************************************************************)
MaxIds == 2

MaxNames == 2

MaxPairs == 2

\* the largest configured MAX_RETRIES
RetryLimit == 3

\* the number of invocations of the matcher that are in progress together
MaxInvocations == 2

(***************************************************************************)
(* Program configuration (defaults of loadConfig).                         *)
(***************************************************************************)
\* maxRetries: parseIntOrDefault(process.env.MAX_RETRIES, 3)
DefaultMaxRetries == 3

initialDelayMs == 1000

(***************************************************************************)
(* Characters and strings.                                                 *)
(***************************************************************************)
UpperAlphabet ==
  <<"A","B","C","D","E","F","G","H","I","J","K","L","M",
    "N","O","P","Q","R","S","T","U","V","W","X","Y","Z">>

LowerAlphabet ==
  <<"a","b","c","d","e","f","g","h","i","j","k","l","m",
    "n","o","p","q","r","s","t","u","v","w","x","y","z">>

Digits == {"0","1","2","3","4","5","6","7","8","9"}

Whitespace == {" ", "\t", "\n"}

Range(s) == { s[i] : i \in 1..Len(s) }

AsciiUpper == Range(UpperAlphabet)

AsciiLower == Range(LowerAlphabet)

LowerOf == [c \in AsciiUpper |-> LowerAlphabet[CHOOSE i \in 1..26 : UpperAlphabet[i] = c]]

UpperOf == [c \in AsciiLower |-> UpperAlphabet[CHOOSE i \in 1..26 : LowerAlphabet[i] = c]]

ToLowerChar(c) == IF c \in AsciiUpper THEN LowerOf[c] ELSE c

\* String.prototype.toLowerCase
ToLowerCase(s) == [i \in 1..Len(s) |-> ToLowerChar(s[i])]

\* NORM_REGEX = /[^a-z0-9.]/g : the characters the replacement keeps
NormKeeps(c) == c \in AsciiLower \cup Digits \cup {"."}

NormNoLowerCase(s) == SelectSeq(s, NormKeeps)

normKeepsHyphen(s) == SelectSeq(ToLowerCase(s), LAMBDA c : NormKeeps(c) \/ c = "-")

\* norm = s.toLowerCase().replace(NORM_REGEX, "")
norm(s) == SelectSeq(ToLowerCase(s), NormKeeps)

\* String.prototype.trim() leaves the empty string
TrimIsEmpty(s) == \A i \in 1..Len(s) : s[i] \in Whitespace

\* a value that is not a string (typeof x !== "string")
NotAString == <<"<not-a-string>">>

\* the value of Map.get on an absent key
Undefined == <<"<undefined>">>

\* JavaScript truthiness of a string or undefined
Truthy(v) == v # Undefined /\ v # <<>>

FreeSuffix == <<"f","r","e","e">>

(***************************************************************************)
(* Set<string> and Map<string,string>.                                     *)
(***************************************************************************)
SetAddNoCheck(set, x) == Append(set, x)

\* Set.prototype.add
SetAdd(set, x) == IF x \in Range(set) THEN set ELSE Append(set, x)

EmptyMap == [k \in {} |-> <<>>]

\* Map.prototype.set
MapSet(m, k, v) == [x \in DOMAIN m \cup {k} |-> IF x = k THEN v ELSE m[x]]

\* Map.prototype.get
MapGet(m, k) == IF k \in DOMAIN m THEN m[k] ELSE Undefined

(***************************************************************************)
(* Candidate prefilter.                                                    *)
(***************************************************************************)
RECURSIVE RunEnd(_, _, _)
\* last index of the maximal run of characters of cls that starts at i
RunEnd(s, i, cls) ==
  IF i + 1 <= Len(s) /\ s[i + 1] \in cls THEN RunEnd(s, i + 1, cls) ELSE i

RECURSIVE NumberTokens(_, _)
\* lower.matchAll(/\d+(?:\.\d+)?/g), scanning from index i
NumberTokens(s, i) ==
  IF i > Len(s) THEN {}
  ELSE IF s[i] \notin Digits THEN NumberTokens(s, i + 1)
  ELSE LET e1 == RunEnd(s, i, Digits)
           e2 == IF e1 + 2 <= Len(s) /\ s[e1 + 1] = "." /\ s[e1 + 2] \in Digits
                 THEN RunEnd(s, e1 + 2, Digits)
                 ELSE e1
       IN  {SubSeq(s, i, e2)} \cup NumberTokens(s, e2 + 1)

RECURSIVE WordTokens(_, _)
\* lower.matchAll(/[a-z]{2,}/g), scanning from index i
WordTokens(s, i) ==
  IF i > Len(s) THEN {}
  ELSE IF s[i] \notin AsciiLower THEN WordTokens(s, i + 1)
  ELSE LET e == RunEnd(s, i, AsciiLower)
       IN  (IF e - i + 1 >= 2 THEN {SubSeq(s, i, e)} ELSE {}) \cup WordTokens(s, e + 1)

extractTokensCaseSensitive(s) == NumberTokens(s, 1) \cup WordTokens(s, 1)

\* extractTokens (lines 11-23)
extractTokens(s) ==
  LET lower == ToLowerCase(s) IN NumberTokens(lower, 1) \cup WordTokens(lower, 1)

\* String.prototype.endsWith
EndsWith(s, suffix) ==
  /\ Len(s) >= Len(suffix)
  /\ SubSeq(s, Len(s) - Len(suffix) + 1, Len(s)) = suffix

DashFree == <<"-">> \o FreeSuffix

RECURSIVE OverlapLoop(_, _, _)
\* first loop of prefilterCandidates over apiIds[1..n]
OverlapLoop(ids, allNameTokens, n) ==
  IF n = 0 THEN <<>>
  ELSE LET c == OverlapLoop(ids, allNameTokens, n - 1)
       IN  IF extractTokens(ids[n]) \cap allNameTokens # {}
           THEN SetAdd(c, ids[n]) ELSE c

RECURSIVE FreeLoop(_, _, _)
\* second loop of prefilterCandidates over apiIds[1..n]
FreeLoop(ids, c0, n) ==
  IF n = 0 THEN c0
  ELSE LET c == FreeLoop(ids, c0, n - 1)
       IN  IF EndsWith(ToLowerCase(ids[n]), DashFree) THEN SetAdd(c, ids[n]) ELSE c

prefilterCandidates(ids, nms) ==
  LET allNameTokens == UNION { extractTokens(nms[i]) : i \in 1..Len(nms) }
  IN  FreeLoop(ids, OverlapLoop(ids, allNameTokens, Len(ids)), Len(ids))

(***************************************************************************)
(* Identifier index and deterministic matcher.                             *)
(***************************************************************************)
RECURSIVE BuildMapsFirstWins(_, _)
BuildMapsFirstWins(ids, n) ==
  IF n = 0 THEN [lower |-> EmptyMap, normalized |-> EmptyMap]
  ELSE LET m == BuildMapsFirstWins(ids, n - 1)
           id == ids[n]
       IN  [lower |-> IF ToLowerCase(id) \in DOMAIN m.lower THEN m.lower
                      ELSE MapSet(m.lower, ToLowerCase(id), id),
            normalized |-> IF norm(id) \in DOMAIN m.normalized THEN m.normalized
                           ELSE MapSet(m.normalized, norm(id), id)]

RECURSIVE BuildMapsLowerFirstWins(_, _)
BuildMapsLowerFirstWins(ids, n) ==
  IF n = 0 THEN [lower |-> EmptyMap, normalized |-> EmptyMap]
  ELSE LET m == BuildMapsLowerFirstWins(ids, n - 1)
           id == ids[n]
       IN  [lower |-> IF ToLowerCase(id) \in DOMAIN m.lower THEN m.lower
                      ELSE MapSet(m.lower, ToLowerCase(id), id),
            normalized |-> MapSet(m.normalized, norm(id), id)]

RECURSIVE BuildMapsNormalizedFirstWins(_, _)
BuildMapsNormalizedFirstWins(ids, n) ==
  IF n = 0 THEN [lower |-> EmptyMap, normalized |-> EmptyMap]
  ELSE LET m == BuildMapsNormalizedFirstWins(ids, n - 1)
           id == ids[n]
       IN  [lower |-> MapSet(m.lower, ToLowerCase(id), id),
            normalized |-> IF norm(id) \in DOMAIN m.normalized THEN m.normalized
                           ELSE MapSet(m.normalized, norm(id), id)]

RECURSIVE BuildMapsLoop(_, _)
\* the loop of buildMaps over apiIds[1..n]
BuildMapsLoop(ids, n) ==
  IF n = 0 THEN [lower |-> EmptyMap, normalized |-> EmptyMap]
  ELSE LET m == BuildMapsLoop(ids, n - 1)
           id == ids[n]
       IN  [lower |-> MapSet(m.lower, ToLowerCase(id), id),
            normalized |-> MapSet(m.normalized, norm(id), id)]

buildMaps(ids) == BuildMapsLoop(ids, Len(ids))

\* the value the maps hold before buildMaps has run
NoMaps == [lower |-> EmptyMap, normalized |-> EmptyMap, built |-> FALSE]

RECURSIVE MatchLoopBothLookups(_, _, _)
MatchLoopBothLookups(nms, m, n) ==
  IF n = 0 THEN <<>>
  ELSE LET res == MatchLoopBothLookups(nms, m, n - 1)
           plain == MapGet(m.normalized, norm(nms[n]))
           free == MapGet(m.normalized, norm(nms[n]) \o FreeSuffix)
           r1 == IF Truthy(plain) THEN SetAdd(res, plain) ELSE res
       IN  IF Truthy(free) THEN SetAdd(r1, free) ELSE r1

RECURSIVE MatchLoop(_, _, _)
\* the loop of matchWithNormalization over names[1..n]
MatchLoop(nms, m, n) ==
  IF n = 0 THEN <<>>
  ELSE LET res == MatchLoop(nms, m, n - 1)
           plain == MapGet(m.normalized, norm(nms[n]))
           actual == IF plain # Undefined THEN plain
                     ELSE MapGet(m.normalized, norm(nms[n]) \o FreeSuffix)
       IN  IF Truthy(actual) THEN SetAdd(res, actual) ELSE res

matchWithNormalization(nms, m) == MatchLoop(nms, m, Len(nms))

(***************************************************************************)
(* Validation.  An argument is [isArray, items]; items of a non-array are  *)
(* never read.                                                             *)
(***************************************************************************)
Ok == "ok"

InvalidItem(x) == x = NotAString \/ TrimIsEmpty(x)

validateIdsOnly(a, n) ==
  IF ~a.isArray THEN "apiIds must be an array"
  ELSE IF ~n.isArray THEN "names must be an array"
  ELSE IF \E i \in 1..Len(a.items) : InvalidItem(a.items[i])
       THEN "Invalid apiId: expected non-empty string"
  ELSE Ok

\* validate: the message of the error it throws, or Ok
validate(a, n) ==
  IF ~a.isArray THEN "apiIds must be an array"
  ELSE IF ~n.isArray THEN "names must be an array"
  ELSE IF \E i \in 1..Len(a.items) : InvalidItem(a.items[i])
       THEN "Invalid apiId: expected non-empty string"
  ELSE IF \E i \in 1..Len(n.items) : InvalidItem(n.items[i])
       THEN "Invalid name: expected non-empty string"
  ELSE Ok

InvalidInputMessages ==
  { "apiIds must be an array", "names must be an array",
    "Invalid apiId: expected non-empty string",
    "Invalid name: expected non-empty string" }

(***************************************************************************)
(* The language-model response.  A response content is a JSON text:        *)
(*   [kind |-> "invalid"]                  not JSON                        *)
(*   [kind |-> "scalar"]                   a JSON number, string or null   *)
(*   [kind |-> "array",  items |-> seq]    a JSON array                    *)
(*   [kind |-> "object", entries |-> seq]  a JSON object, entries of       *)
(*                                         [key, value] in key order       *)
(* An array item is [displayName, apiId]; a field that is missing or not   *)
(* a string is NotAString.                                                 *)
(***************************************************************************)
EmptyObject == [kind |-> "object", entries |-> <<>>]

\* z.object({ displayName: z.string(), apiId: z.string() })
IsPair(x) == x.displayName # NotAString /\ x.apiId # NotAString

\* z.array(z.object({ displayName, apiId }))
IsPairArray(v) ==
  /\ v.kind = "array"
  /\ \A i \in 1..Len(v.items) : IsPair(v.items[i])

ObjHasKey(obj, k) == \E i \in 1..Len(obj.entries) : obj.entries[i].key = k

ValueOf(obj, k) ==
  obj.entries[CHOOSE i \in 1..Len(obj.entries) : obj.entries[i].key = k].value

\* the three options of LLMResponseSchema
SchemaMatches(v) ==
  v.kind = "object" /\ ObjHasKey(v, "matches") /\ IsPairArray(ValueOf(v, "matches"))

SchemaArray(v) == IsPairArray(v)

SchemaRecord(v) ==
  /\ v.kind = "object"
  /\ \A i \in 1..Len(v.entries) : IsPairArray(v.entries[i].value)

parseLLMResponseUnchecked(content) ==
  IF content.kind = "array" THEN content.items
  ELSE IF content.kind = "object" /\ ObjHasKey(content, "matches")
            /\ ValueOf(content, "matches").kind = "array"
       THEN ValueOf(content, "matches").items
  ELSE <<>>

\* parseLLMResponse (lines 103-140): the pairs of a content, [] on any failure
parseLLMResponse(content) ==
  IF content.kind = "invalid" THEN <<>>
  ELSE IF SchemaMatches(content) THEN ValueOf(content, "matches").items
  ELSE IF SchemaArray(content) THEN content.items
  ELSE IF SchemaRecord(content)
       THEN IF Len(content.entries) > 0 THEN content.entries[1].value.items ELSE <<>>
  ELSE <<>>

(***************************************************************************)
(* Backend errors: [class, hasStatus, status, message].                    *)
(***************************************************************************)
NoErr == [class |-> "none"]

Includes(s, sub) ==
  \E i \in 1..(Len(s) + 1) :
    i + Len(sub) - 1 <= Len(s) /\ SubSeq(s, i, i + Len(sub) - 1) = sub

MsgNetwork == <<"n","e","t","w","o","r","k">>

MsgTimeout == <<"t","i","m","e","o","u","t">>

MsgEconnreset == <<"e","c","o","n","n","r","e","s","e","t">>

isRetryable(err) ==
  IF err.class = "APIError"
  THEN err.hasStatus /\ (err.status = 429 \/ err.status >= 500)
  ELSE IF err.class = "Error"
  THEN LET msg == ToLowerCase(err.message)
       IN  Includes(msg, MsgNetwork) \/ Includes(msg, MsgTimeout)
             \/ Includes(msg, MsgEconnreset)
  ELSE FALSE

\* lastErr = err instanceof Error ? err : new Error(String(err))
AsError(err) ==
  IF err.class \in {"APIError", "Error"} THEN err
  ELSE [class |-> "Error", hasStatus |-> FALSE, status |-> 0, message |-> err.message]

\* new Error(`LLM failed after ${config.maxRetries} attempts: ${lastErr?.message}`)
ExhaustedError(last) ==
  [class |-> "Error", hasStatus |-> FALSE, status |-> 0, exhausted |-> TRUE,
   attempts |-> maxRetries,
   message |-> IF last = NoErr THEN Undefined ELSE last.message]

IssuedInParallel(n) == n + 2

\* one iteration awaits one client.chat.completions.create (line 161)
Issued(n) == n + 1

MoreAttemptsInclusive(i) == i <= maxRetries

\* after the failure of attempt i the loop goes on: i < config.maxRetries
\* (line 171), so that i + 1 <= config.maxRetries (line 159)
MoreAttempts(i) == i < maxRetries

BackoffDelayConstant(i) == initialDelayMs

\* delay = config.initialDelayMs * Math.pow(2, i - 1)
BackoffDelay(i) == initialDelayMs * 2 ^ (i - 1)

(***************************************************************************)
(* The prompt.  A message content is the sequence of its lines (the text   *)
(* split at "\n"); a fixed line is a one-element sequence holding its text, *)
(* an item line is the sequence of its characters.                         *)
(***************************************************************************)
\* `- "${x}"`
ItemLine(x) == <<"-", " ", "\"">> \o x \o <<"\"">>

\* xs.map(x => `- "${x}"`).join("\n"): the lines of the joined text, which is
\* the empty string (one empty line) for an empty list
ItemLines(xs) ==
  IF Len(xs) = 0 THEN << <<>> >> ELSE [i \in 1..Len(xs) |-> ItemLine(xs[i])]

SystemPrompt == << <<"You are a model name matcher. ...">> >>

\* buildMessages (lines 181-202)
buildMessages(nms, ids) ==
  << [role |-> "system", content |-> SystemPrompt],
     [role |-> "user",
      content |-> << <<"Match these display names to API IDs:">>, <<>>,
                     <<"Display names:">> >>
                    \o ItemLines(nms)
                    \o << <<>>, <<"Available API IDs:">> >>
                    \o ItemLines(ids)] >>

PromptIdsFull(ids, cands) == ids

\* buildMessages(names, candidates) (line 243): the identifiers of the prompt
PromptIds(ids, cands) == cands

(***************************************************************************)
(* Reconciliation of the model's pairs and the fallbacks.                  *)
(***************************************************************************)
RECURSIVE ProcessLoopTrusting(_, _, _)
ProcessLoopTrusting(llm, m, n) ==
  IF n = 0 THEN [result |-> <<>>, matchedNames |-> {}]
  ELSE LET p == ProcessLoopTrusting(llm, m, n - 1)
       IN  [result |-> SetAdd(p.result, llm[n].apiId),
            matchedNames |-> p.matchedNames \cup {ToLowerCase(llm[n].displayName)}]

RECURSIVE ProcessLoop(_, _, _)
\* the loop of processLLMMatches over llmMatches[1..n]
ProcessLoop(llm, m, n) ==
  IF n = 0 THEN [result |-> <<>>, matchedNames |-> {}]
  ELSE LET p == ProcessLoop(llm, m, n - 1)
           actual == MapGet(m.lower, ToLowerCase(llm[n].apiId))
       IN  IF Truthy(actual)
           THEN [result |-> SetAdd(p.result, actual),
                 matchedNames |-> p.matchedNames \cup {ToLowerCase(llm[n].displayName)}]
           ELSE p

processLLMMatchesUntilUnknown(llm, m) ==
  LET unknown == { i \in 1..Len(llm) :
                     ~Truthy(MapGet(m.lower, ToLowerCase(llm[i].apiId))) }
  IN  ProcessLoop(llm, m,
        IF unknown = {} THEN Len(llm)
        ELSE (CHOOSE i \in unknown : \A j \in unknown : i <= j) - 1)

processLLMMatches(llm, m) == ProcessLoop(llm, m, Len(llm))

RECURSIVE AddAll(_, _, _)
\* for (const id of ids) if (!result.has(id)) result.add(id), over ids[1..n]
AddAll(res, ids, n) ==
  IF n = 0 THEN res ELSE SetAdd(AddAll(res, ids, n - 1), ids[n])

ReconcileEmptyGivesNames(content, nms, m) ==
  LET p == processLLMMatches(parseLLMResponse(content), m)
      unmatchedNames == SelectSeq(nms, LAMBDA n : ToLowerCase(n) \notin p.matchedNames)
      res == IF Len(unmatchedNames) > 0
             THEN LET found == matchWithNormalization(unmatchedNames, m)
                  IN  AddAll(p.result, found, Len(found))
             ELSE p.result
  IN  IF Len(res) = 0 THEN nms ELSE res

ReconcileLLMOnly(content, nms, m) ==
  processLLMMatches(parseLLMResponse(content), m).result

ReconcileAllNames(content, nms, m) ==
  LET p == processLLMMatches(parseLLMResponse(content), m)
      res == IF Len(nms) > 0
             THEN LET found == matchWithNormalization(nms, m)
                  IN  AddAll(p.result, found, Len(found))
             ELSE p.result
  IN  IF Len(res) = 0 THEN matchWithNormalization(nms, m) ELSE res

\* matchModelsWithLLM after callLLM has returned content (lines 244-262)
Reconcile(content, nms, m) ==
  LET p == processLLMMatches(parseLLMResponse(content), m)
      unmatchedNames == SelectSeq(nms, LAMBDA n : ToLowerCase(n) \notin p.matchedNames)
      res == IF Len(unmatchedNames) > 0
             THEN LET found == matchWithNormalization(unmatchedNames, m)
                  IN  AddAll(p.result, found, Len(found))
             ELSE p.result
  IN  IF Len(res) = 0 THEN matchWithNormalization(nms, m) ELSE res

EmptyNamesNever(nms) == FALSE

\* the empty-names shortcut (line 227)
EmptyNames(nms) == Len(nms) = 0

NoKeyResultEmpty(nms, m) == <<>>

\* the return of the missing-credential branch (line 233)
NoKeyResult(nms, m) == matchWithNormalization(nms, m)

CatchResultEmpty(nms, m) == <<>>

\* the return of the catch block (line 270)
CatchResult(nms, m) == matchWithNormalization(nms, m)

CatchOnlyAPIErrors(err) == IF err.class = "APIError" THEN "returned" ELSE "threw"

\* catch (err) { ... return ... } handles every thrown value (lines 263-271)
CatchOutcome(err) == "returned"

(***************************************************************************)
(* Inputs.                                                                 *)
(***************************************************************************)
IdAB == <<"a","-","b">>

IdABUpper == <<"A","-","B">>

IdABFree == <<"a","b","-","f","r","e","e">>

IdADotB == <<"a",".","b">>

IdInvented == <<"g","p","t">>

NameAB == <<"A"," ","B">>

NameABLower == <<"a"," ","b">>

NameAb == <<"a","b">>

NameAbFree == <<"A","b"," ","F","r","e","e">>

IdPool == {IdAB, IdABUpper, IdABFree, IdADotB}

NamePool == {NameAB, NameAb, NameAbFree}

\* the sequences of at most k distinct elements of S
Lists(S, k) ==
  { s \in UNION { [1..n -> S] : n \in 0..k } :
      \A i, j \in 1..Len(s) : i # j => s[i] # s[j] }

Arr(s) == [isArray |-> TRUE, items |-> s]

NotAnArray == [isArray |-> FALSE, items |-> <<>>]

ValidIdArgs == { Arr(s) : s \in Lists(IdPool, MaxIds) }

ValidNameArgs == { Arr(s) : s \in Lists(NamePool, MaxNames) }

InvalidIdArgs ==
  { NotAnArray, Arr(<<IdAB, <<>>>>), Arr(<< <<" ">> >>), Arr(<<NotAString, IdAB>>) }

InvalidNameArgs ==
  { NotAnArray, Arr(<<NameAB, <<>>>>), Arr(<< <<" ", "\t">> >>), Arr(<<NotAString>>) }

Inputs ==
  (ValidIdArgs \X ValidNameArgs)
    \cup (InvalidIdArgs \X ({Arr(<<>>), Arr(<<NameAB>>)} \cup InvalidNameArgs))
    \cup ({Arr(<<>>), Arr(<<IdAB>>)} \X InvalidNameArgs)

Pair(n, id) == [displayName |-> n, apiId |-> id]

PairPool ==
  { Pair(NameABLower, IdABUpper), Pair(NameAb, IdABUpper),
    Pair(NameAb, IdABFree), Pair(NameAb, IdInvented) }

PairLists == UNION { [1..n -> PairPool] : n \in 0..MaxPairs }

Array(items) == [kind |-> "array", items |-> items]

Object(entries) == [kind |-> "object", entries |-> entries]

Scalar == [kind |-> "scalar"]

MalformedPair == [displayName |-> NameAb, apiId |-> NotAString]

WellFormedPair == [displayName |-> NameAb, apiId |-> IdABFree]

\* the value of choices[0]?.message?.content when it is missing or empty
Absent == [kind |-> "absent"]

Contents ==
  { Object(<<[key |-> "matches", value |-> Array(l)]>>) : l \in PairLists }
    \cup { Array(l) : l \in PairLists }
    \cup { Object(<<[key |-> "results", value |-> Array(l)]>>) : l \in PairLists }
    \cup { [kind |-> "invalid"], Scalar, Absent, EmptyObject,
           Object(<<[key |-> "matches", value |-> Scalar]>>),
           Array(<<WellFormedPair, MalformedPair>>),
           Object(<<[key |-> "results", value |-> Array(<<WellFormedPair>>)],
                    [key |-> "note", value |-> Scalar]>>) }

\* no answer of the backend is fixed in advance
NoResponse == [kind |-> "none"]

\* the contents the backend may answer with: the one in flight, or any
Answers == IF response = NoResponse THEN Contents ELSE {response}

APIError(status) ==
  [class |-> "APIError", hasStatus |-> TRUE, status |-> status, message |-> <<>>]

\* APIConnectionError: an APIError without status
ConnectionError ==
  [class |-> "APIError", hasStatus |-> FALSE, status |-> 0,
   message |-> <<"C","o","n","n","e","c","t","i","o","n">>]

PlainError(msg) == [class |-> "Error", hasStatus |-> FALSE, status |-> 0, message |-> msg]

ThrownString == [class |-> "string", hasStatus |-> FALSE, status |-> 0, message |-> <<"b","a","d">>]

Errors ==
  { APIError(429), APIError(500), APIError(400), ConnectionError,
    PlainError(<<"N","e","t","w","o","r","k">>), PlainError(<<"b","a","d">>),
    ThrownString }

(***************************************************************************)
(* The scraper: the values of scrape() and main().                         *)
(***************************************************************************)
DigitSeq == <<"0","1","2","3","4","5","6","7","8","9">>

\* the UTF-16 code unit of a character of the model's alphabet
CodeUnit(c) ==
  IF c \in Range(UpperAlphabet)
  THEN 64 + (CHOOSE i \in 1..26 : UpperAlphabet[i] = c)
  ELSE IF c \in Range(LowerAlphabet)
  THEN 96 + (CHOOSE i \in 1..26 : LowerAlphabet[i] = c)
  ELSE IF c \in Digits
  THEN 47 + (CHOOSE i \in 1..10 : DigitSeq[i] = c)
  ELSE IF c = "\t" THEN 9
  ELSE IF c = "\n" THEN 10
  ELSE IF c = " " THEN 32
  ELSE IF c = "-" THEN 45
  ELSE IF c = "." THEN 46
  ELSE 95

RECURSIVE StringLess(_, _)
\* a < b for strings: the order Array.prototype.sort uses without comparator
StringLess(a, b) ==
  IF b = <<>> THEN FALSE
  ELSE IF a = <<>> THEN TRUE
  ELSE IF CodeUnit(Head(a)) # CodeUnit(Head(b))
  THEN CodeUnit(Head(a)) < CodeUnit(Head(b))
  ELSE StringLess(Tail(a), Tail(b))

\* x put behind the elements of the sorted list s that are not greater
InsertSorted(s, x) ==
  LET k == Cardinality({ i \in 1..Len(s) : ~StringLess(x, s[i]) })
  IN  SubSeq(s, 1, k) \o <<x>> \o SubSeq(s, k + 1, Len(s))

RECURSIVE SortLoop(_, _)
\* Array.prototype.sort() over xs[1..n]
SortLoop(xs, n) ==
  IF n = 0 THEN <<>> ELSE InsertSorted(SortLoop(xs, n - 1), xs[n])

\* [...new Set(xs)]
NewSet(xs) == AddAll(<<>>, xs, Len(xs))

SortedFreeIdsUnsorted(freeModelIds) == NewSet(freeModelIds)

\* const sortedFreeIds = [...new Set(freeModelIds)].sort()
SortedFreeIds(freeModelIds) ==
  LET set == NewSet(freeModelIds) IN SortLoop(set, Len(set))

AllModelsNoneFree(ids, sortedFreeIds) ==
  [i \in 1..Len(ids) |-> [modelId |-> ids[i], isFree |-> FALSE]]

\* apiModelIds.map(id => ({ modelId: id, isFree: sortedFreeIds.includes(id) }))
AllModels(ids, sortedFreeIds) ==
  [i \in 1..Len(ids) |->
     [modelId |-> ids[i], isFree |-> ids[i] \in Range(sortedFreeIds)]]

\* the Output scrape() returns (updatedAt, source and scrapeTimestamp left out)
Output(ids, freeModelIds) ==
  LET sortedFreeIds == SortedFreeIds(freeModelIds)
  IN  [modelIds |-> sortedFreeIds,
       raw |-> [totalModelsFound |-> Len(ids),
                allModels |-> AllModels(ids, sortedFreeIds)]]

NoOutput == [modelIds |-> <<>>, raw |-> [totalModelsFound |-> 0, allModels |-> <<>>]]

\* the file at config.outputPath; its content stands for the JSON text of an
\* Output, whose strings, booleans and numbers JSON.parse gives back unchanged
NoFile == [exists |-> FALSE, content |-> NoOutput]

FileOf(o) == [exists |-> TRUE, content |-> o]

\* the artifact a previous run of the scraper left behind
PreviousOutput == Output(<<IdADotB, IdAB>>, <<IdADotB>>)

\* what fetchModels can return: identifiers of 1 to 255 characters
FetchedIds ==
  Lists({IdAB, IdABUpper, IdABFree}, MaxIds) \cup { <<IdAB, IdAB>>, << <<" ">> >> }

\* what extractFreeModels can return: any strings
ExtractedNames ==
  Lists(NamePool, MaxNames) \cup { <<NameAb, NameAb>>, <<NameAB, <<>>>> }

\* the request of fetchModels: no error yet
NoFetchError == [kind |-> "none", status |-> 0]

\* withRetry has not been called
NoFetch ==
  [pc |-> "idle", attempt |-> 0, requests |-> 0, delays |-> <<>>,
   lastError |-> NoFetchError, thrown |-> "none"]

\* the scraper is not running
ScrapeIdle ==
  /\ step = "idle"
  /\ apiModelIds = <<>>
  /\ freeModelNames = <<>>
  /\ output = NoOutput
  /\ outputFile = NoFile
  /\ exitCode = 0
  /\ fetch = NoFetch

(***************************************************************************)
(* sync.sh: the cache file, the opencode config and the lock directory.    *)
(* A JSON object is a function whose domain is the set of its keys.        *)
(***************************************************************************)
MaxRuns == 2

MaxTicks == 2

\* MAX_AGE="${ZEN_CACHE_MAX_AGE:-43200}"
MAX_AGE == 43200

\* [[ $wait -ge 5 ]]
LockWaits == 5

Runs == 1..MaxRuns

NoKeys == [k \in {} |-> TRUE]

\* the JSON value null
JsonNull == [null |-> TRUE]

\* c.provider?.opencode is truthy: an object is, null and undefined are not
HasOpencode(c) ==
  /\ "provider" \in DOMAIN c
  /\ "opencode" \in DOMAIN c["provider"]
  /\ c["provider"]["opencode"] # JsonNull

\* o[k] = v
ObjSet(o, k, v) == [x \in DOMAIN o \cup {k} |-> IF x = k THEN v ELSE o[x]]

\* delete o[k]
ObjDelete(o, k) == [x \in DOMAIN o \ {k} |-> o[x]]

FreshInclusive(age) == age <= MAX_AGE

\* [[ $age -lt $MAX_AGE ]]
Fresh(age) == age < MAX_AGE

\* update_conf with an empty id list: the node program of lines 32-39
UpdateConfEmpty(c) ==
  LET c1 == IF HasOpencode(c)
            THEN ObjSet(c, "provider", ObjDelete(c["provider"], "opencode"))
            ELSE c
      c2 == IF "disabled_providers" \notin DOMAIN c1
            THEN ObjSet(c1, "disabled_providers", <<>>) ELSE c1
  IN  IF "opencode" \notin Range(c2["disabled_providers"])
      THEN ObjSet(c2, "disabled_providers", Append(c2["disabled_providers"], "opencode"))
      ELSE c2

UpdateConfIdsOnlyOpencode(c, ids) ==
  LET c2 == ObjSet(c, "provider", ObjSet(NoKeys, "opencode", [whitelist |-> ids]))
  IN  IF "disabled_providers" \in DOMAIN c2
      THEN LET kept == SelectSeq(c2["disabled_providers"], LAMBDA p : p # "opencode")
           IN  IF Len(kept) = 0
               THEN ObjDelete(c2, "disabled_providers")
               ELSE ObjSet(c2, "disabled_providers", kept)
      ELSE c2

\* update_conf with the id list ids: the node program of lines 41-52
UpdateConfIds(c, ids) ==
  LET c1 == IF "provider" \notin DOMAIN c THEN ObjSet(c, "provider", NoKeys) ELSE c
      c2 == ObjSet(c1, "provider",
                   ObjSet(c1["provider"], "opencode", [whitelist |-> ids]))
  IN  IF "disabled_providers" \in DOMAIN c2
      THEN LET kept == SelectSeq(c2["disabled_providers"], LAMBDA p : p # "opencode")
           IN  IF Len(kept) = 0
               THEN ObjDelete(c2, "disabled_providers")
               ELSE ObjSet(c2, "disabled_providers", kept)
      ELSE c2

\* a text that is not the JSON of an id list: what parse_node leaves in
\* ids, the decoded file followed by its modelIds, because the command
\* substitution drops the NUL byte that separated them
Mangled == <<NotAString>>

\* the empty text: what parse_node leaves in data
EmptyText == <<Undefined>>

\* update_conf: nothing happens without the file or without node, and a
\* config or an id list JSON.parse rejects leaves the file as it is (|| true)
update_conf(file, hasNode, ids) ==
  IF ~file.exists \/ ~hasNode \/ ~file.valid \/ ids = Mangled THEN file
  ELSE [file EXCEPT !.json = IF ids = <<>> THEN UpdateConfEmpty(@)
                                           ELSE UpdateConfIds(@, ids)]

NoConf == [exists |-> FALSE, valid |-> FALSE, json |-> NoKeys]

\* a config JSON.parse rejects, such as one with comments
InvalidConf == [exists |-> TRUE, valid |-> FALSE, json |-> NoKeys]

ConfOf(json) == [exists |-> TRUE, valid |-> TRUE, json |-> json]

Anthropic == [apiKey |-> "test-key"]

OldWhitelist == [whitelist |-> <<IdADotB>>]

\* a config that whitelists and disables the provider, with other keys
RichConf ==
  ConfOf([provider |-> [opencode |-> OldWhitelist, anthropic |-> Anthropic],
          disabled_providers |-> <<"openai", "opencode">>,
          someOtherSetting |-> TRUE])

\* the configs a run can find
Confs ==
  { NoConf, InvalidConf, ConfOf(NoKeys),
    ConfOf([provider |-> [anthropic |-> Anthropic], someOtherSetting |-> TRUE]),
    ConfOf([provider |-> [opencode |-> OldWhitelist]]),
    ConfOf([provider |-> [opencode |-> JsonNull]]),
    RichConf,
    ConfOf([provider |-> NoKeys, disabled_providers |-> <<"opencode", "opencode">>]) }

\* a config with the tools installed (jq, node): every config where both
\* are, and some where one or both are missing
Environments ==
  (Confs \X {TRUE} \X {TRUE})
    \cup ({NoConf, InvalidConf, RichConf} \X {TRUE} \X {FALSE})
    \cup ({RichConf} \X {FALSE} \X BOOLEAN)

NoCache == [exists |-> FALSE, mtime |-> 0, data |-> <<>>]

\* the cache file: its modification time and the modelIds of its content
CacheOf(t, ids) == [exists |-> TRUE, mtime |-> t, data |-> ids]

\* what curl and the parser make of the remote file
Responses ==
  { [kind |-> k, modelIds |-> <<>>] : k \in {"failed", "empty", "garbage"} }
    \cup { [kind |-> "ok", modelIds |-> ids] :
             ids \in { <<>>, <<IdAB, IdABFree>> } }

\* a run of sync.sh that has not started
IdleRun ==
  [pc |-> "idle", wait |-> 0, trap |-> FALSE, ids |-> <<>>, status |-> 0]

\* sync.sh is not running
SyncIdle ==
  /\ clock = 0
  /\ cache = NoCache
  /\ conf = NoConf
  /\ lockDir = FALSE
  /\ run = [p \in Runs |-> IdleRun]
  /\ jq = TRUE
  /\ node = TRUE

(***************************************************************************)
(* One invocation of matchModels or matchModelsWithLLM.                    *)
(***************************************************************************)
Init ==
  /\ entry \in {"matchModels", "matchModelsWithLLM"}
  /\ \E in \in Inputs : apiIds = in[1] /\ names = in[2]
  /\ hasKey \in BOOLEAN
  /\ pc = "start"
  /\ maps = NoMaps
  /\ candidates = <<>>
  /\ attempt = 0
  /\ requests = 0
  /\ delays = <<>>
  /\ lastErr = NoErr
  /\ caught = NoErr
  /\ error = Ok
  /\ llmMatches = <<>>
  /\ result = <<>>
  /\ maxRetries = DefaultMaxRetries
  /\ messages = <<>>
  /\ response = NoResponse
  /\ invocations = <<>>
  /\ ScrapeIdle
  /\ SyncIdle

\* matchModels (lines 98-101)
MatchModels ==
  /\ pc = "start"
  /\ entry = "matchModels"
  /\ LET v == validate(apiIds, names)
     IN  IF v # Ok
         THEN /\ pc' = "threw"
              /\ error' = v
              /\ UNCHANGED <<maps, result>>
         ELSE /\ maps' = buildMaps(apiIds.items)
              /\ result' = matchWithNormalization(names.items, maps')
              /\ pc' = "returned"
              /\ error' = Ok
  /\ UNCHANGED <<entry, apiIds, names, hasKey, candidates, attempt, requests,
                 delays, lastErr, caught, llmMatches>>
  /\ UNCHANGED <<maxRetries, response, invocations, messages>>
  /\ UNCHANGED <<scrapeVars, syncVars>>

\* matchModelsWithLLM up to its first suspension (lines 225-243, 159-166)
StartLLM ==
  /\ pc = "start"
  /\ entry = "matchModelsWithLLM"
  /\ LET v == validate(apiIds, names)
         m == buildMaps(apiIds.items)
     IN  IF v # Ok
         THEN /\ pc' = "threw"
              /\ error' = v
              /\ UNCHANGED <<maps, candidates, attempt, requests, caught, result, messages>>
         ELSE IF EmptyNames(names.items)
         THEN /\ pc' = "returned"
              /\ result' = <<>>
              /\ UNCHANGED <<maps, candidates, attempt, requests, caught, error, messages>>
         ELSE IF ~hasKey
         THEN /\ maps' = m
              /\ pc' = "returned"
              /\ result' = NoKeyResult(names.items, m)
              /\ UNCHANGED <<candidates, attempt, requests, caught, error, messages>>
         ELSE IF maxRetries >= 1
         THEN /\ maps' = m
              /\ candidates' = prefilterCandidates(apiIds.items, names.items)
              /\ attempt' = 1
              /\ requests' = Issued(requests)
              /\ messages' = buildMessages(names.items,
                                            PromptIds(apiIds.items, candidates'))
              /\ pc' = "calling"
              /\ UNCHANGED <<caught, error, result>>
         ELSE /\ maps' = m
              /\ candidates' = prefilterCandidates(apiIds.items, names.items)
              /\ caught' = ExhaustedError(lastErr)
              /\ pc' = CatchOutcome(caught')
              /\ result' = IF pc' = "returned" THEN CatchResult(names.items, m) ELSE result
              /\ UNCHANGED <<attempt, requests, error, messages>>
  /\ UNCHANGED <<entry, apiIds, names, hasKey, delays, lastErr, llmMatches>>
  /\ UNCHANGED <<maxRetries, response, invocations>>
  /\ UNCHANGED <<scrapeVars, syncVars>>

\* the backend answers: callLLM returns and the invocation runs to its
\* return (lines 167, 244-262)
LLMSuccess ==
  /\ pc = "calling"
  /\ \E c \in Answers :
       LET content == IF c = Absent THEN EmptyObject ELSE c
       IN  /\ llmMatches' = parseLLMResponse(content)
           /\ result' = Reconcile(content, names.items, maps)
  /\ pc' = "returned"
  /\ lastErr' = NoErr
  /\ UNCHANGED <<entry, apiIds, names, hasKey, maps, candidates, attempt,
                 requests, delays, caught, error>>
  /\ UNCHANGED <<maxRetries, response, invocations, messages>>
  /\ UNCHANGED <<scrapeVars, syncVars>>

\* the backend call fails (lines 168-178, 263-271)
LLMFailure ==
  /\ pc = "calling"
  /\ \E err \in Errors :
       IF ~isRetryable(err)
       THEN /\ lastErr' = AsError(err)
            /\ caught' = err
            /\ pc' = CatchOutcome(err)
            /\ result' = IF pc' = "returned" THEN CatchResult(names.items, maps) ELSE result
            /\ UNCHANGED delays
       ELSE IF MoreAttempts(attempt)
       THEN /\ lastErr' = AsError(err)
            /\ delays' = Append(delays, BackoffDelay(attempt))
            /\ pc' = "delaying"
            /\ UNCHANGED <<caught, result>>
       ELSE /\ lastErr' = AsError(err)
            /\ caught' = ExhaustedError(lastErr')
            /\ pc' = CatchOutcome(caught')
            /\ result' = IF pc' = "returned" THEN CatchResult(names.items, maps) ELSE result
            /\ UNCHANGED delays
  /\ UNCHANGED <<entry, apiIds, names, hasKey, maps, candidates, attempt,
                 requests, error, llmMatches>>
  /\ UNCHANGED <<maxRetries, response, invocations, messages>>
  /\ UNCHANGED <<scrapeVars, syncVars>>

\* the backoff delay elapses and the next attempt is issued (lines 174, 159-166)
DelayElapsed ==
  /\ pc = "delaying"
  /\ attempt' = attempt + 1
  /\ requests' = Issued(requests)
  /\ pc' = "calling"
  /\ UNCHANGED <<entry, apiIds, names, hasKey, maps, candidates, delays,
                 lastErr, caught, error, llmMatches, result>>
  /\ UNCHANGED <<maxRetries, response, invocations, messages>>
  /\ UNCHANGED <<scrapeVars, syncVars>>

Next == MatchModels \/ StartLLM \/ LLMSuccess \/ LLMFailure \/ DelayElapsed

Spec == Init /\ [][Next]_vars

(***************************************************************************)
(* matchModelsWithLLM with a credential, under every configured            *)
(* MAX_RETRIES from 0 to RetryLimit.                                       *)
(***************************************************************************)
InitRetry ==
  /\ entry = "matchModelsWithLLM"
  /\ apiIds = Arr(<<IdABUpper, IdABFree>>)
  /\ names \in {Arr(<<NameAb>>), Arr(<<NameAB, NameAbFree>>)}
  /\ hasKey = TRUE
  /\ pc = "start"
  /\ maps = NoMaps
  /\ candidates = <<>>
  /\ attempt = 0
  /\ requests = 0
  /\ delays = <<>>
  /\ lastErr = NoErr
  /\ caught = NoErr
  /\ error = Ok
  /\ llmMatches = <<>>
  /\ result = <<>>
  /\ maxRetries \in 0..RetryLimit
  /\ messages = <<>>
  /\ response = NoResponse
  /\ invocations = <<>>
  /\ ScrapeIdle
  /\ SyncIdle

NextRetry == StartLLM \/ LLMSuccess \/ LLMFailure \/ DelayElapsed

SpecRetry == InitRetry /\ [][NextRetry]_vars

(***************************************************************************)
(* The invocations whose first backend call answers with a given content.  *)
(***************************************************************************)
InitParse ==
  /\ entry = "matchModelsWithLLM"
  /\ apiIds \in {Arr(<<IdABUpper, IdABFree>>), Arr(<<IdADotB>>)}
  /\ names \in {Arr(<<NameAb>>), Arr(<<NameAB, NameAbFree>>)}
  /\ hasKey = TRUE
  /\ pc = "start" /\ maps = NoMaps /\ candidates = <<>> /\ attempt = 0
  /\ requests = 0 /\ delays = <<>> /\ lastErr = NoErr /\ caught = NoErr
  /\ error = Ok /\ llmMatches = <<>> /\ result = <<>>
  /\ maxRetries = DefaultMaxRetries
  /\ messages = <<>>
  /\ response \in Contents
  /\ invocations = <<>>
  /\ ScrapeIdle /\ SyncIdle

NextParse == StartLLM \/ LLMSuccess

SpecParse == InitParse /\ [][NextParse]_vars

(***************************************************************************)
(* The invocations up to their first backend call, on identifiers and      *)
(* names with digits, decimals, words and the "-free" suffix.              *)
(***************************************************************************)
IdGl4 == <<"g","l","-","4">>

IdGl47 == <<"g","l","-","4",".","7">>

IdQ9 == <<"q","-","9">>

IdXFreeUpper == <<"X","-","F","R","E","E">>

NameGl47 == <<"G","L"," ","4",".","7">>

NameQ4 == <<"Q"," ","4">>

IdDashes == <<"-","_">>

PrefilterIds == {IdGl4, IdGl47, IdQ9, IdXFreeUpper, IdAB, IdDashes}

PrefilterNames == {NameGl47, NameQ4, NameAB}

InitPrefilter ==
  /\ entry = "matchModelsWithLLM"
  /\ apiIds \in { Arr(l) : l \in Lists(PrefilterIds, MaxIds) \cup { <<IdGl4, IdGl4>> } }
  /\ names \in { Arr(l) : l \in Lists(PrefilterNames, MaxNames) \ { <<>> } }
  /\ hasKey = TRUE
  /\ pc = "start" /\ maps = NoMaps /\ candidates = <<>> /\ attempt = 0
  /\ requests = 0 /\ delays = <<>> /\ lastErr = NoErr /\ caught = NoErr
  /\ error = Ok /\ llmMatches = <<>> /\ result = <<>>
  /\ maxRetries = DefaultMaxRetries
  /\ messages = <<>>
  /\ response = NoResponse
  /\ invocations = <<>>
  /\ ScrapeIdle /\ SyncIdle

NextPrefilter == StartLLM

SpecPrefilter == InitPrefilter /\ [][NextPrefilter]_vars

(***************************************************************************)
(* One run of the scraper: main() calls scrape(), which calls the matcher. *)
(***************************************************************************)
MatcherIdle ==
  /\ entry = "matchModelsWithLLM"
  /\ apiIds = Arr(<<>>)
  /\ names = Arr(<<>>)
  /\ pc = "idle"
  /\ maps = NoMaps
  /\ candidates = <<>>
  /\ attempt = 0
  /\ requests = 0
  /\ delays = <<>>
  /\ lastErr = NoErr
  /\ caught = NoErr
  /\ error = Ok
  /\ llmMatches = <<>>
  /\ result = <<>>
  /\ maxRetries = DefaultMaxRetries
  /\ messages = <<>>
  /\ response = NoResponse

InitScrape ==
  /\ MatcherIdle
  /\ invocations = <<>>
  /\ hasKey \in BOOLEAN
  /\ step = "fetchModels"
  /\ apiModelIds = <<>>
  /\ freeModelNames = <<>>
  /\ output = NoOutput
  /\ outputFile \in {NoFile, FileOf(PreviousOutput)}
  /\ exitCode = 0
  /\ fetch = NoFetch
  /\ SyncIdle

\* catch (error) { ...; process.exit(1) } of main (lines 148-151)
ExitFailure ==
  /\ step' = "exited"
  /\ exitCode' = 1
  /\ UNCHANGED <<output, outputFile>>

\* fetchModels returns or throws (lines 101, 63-82)
FetchModels ==
  /\ step = "fetchModels"
  /\ \/ \E ids \in FetchedIds :
          /\ apiModelIds' = ids
          /\ step' = "scrapeFreeModels"
          /\ UNCHANGED <<output, outputFile, exitCode>>
     \/ ExitFailure /\ UNCHANGED apiModelIds
  /\ UNCHANGED <<freeModelNames, fetch, matchVars, syncVars>>

\* freeModelNames.length === 0
NoFreeModelNames(nms) == Len(nms) = 0

\* scrapeFreeModels returns or throws, and scrape goes on to the call of
\* matchModelsWithLLM (lines 102-110)
ScrapeFreeModels ==
  /\ step = "scrapeFreeModels"
  /\ \/ \E nms \in ExtractedNames :
          /\ freeModelNames' = nms
          /\ IF NoFreeModelNames(nms)
             THEN ExitFailure /\ UNCHANGED matchVars
             ELSE /\ step' = "matchModelsWithLLM"
                  /\ apiIds' = Arr(apiModelIds)
                  /\ names' = Arr(nms)
                  /\ pc' = "start"
                  /\ UNCHANGED <<entry, hasKey, maxRetries, response, invocations, messages, maps, candidates, attempt, requests,
                                 delays, lastErr, caught, error, llmMatches, result,
                                 output, outputFile, exitCode>>
     \/ ExitFailure /\ UNCHANGED <<freeModelNames, matchVars>>
  /\ UNCHANGED <<apiModelIds, fetch, syncVars>>

NoFreeModelIdsNever(ids) == FALSE

\* freeModelIds.length === 0
NoFreeModelIds(ids) == Len(ids) = 0

\* matchModelsWithLLM has returned or thrown: scrape builds the Output and
\* main writes it, or main exits with status 1 (lines 110-137, 141-151)
MatchSettled ==
  /\ step = "matchModelsWithLLM"
  /\ pc \in {"returned", "threw"}
  /\ IF pc = "threw" \/ NoFreeModelIds(result)
     THEN ExitFailure
     ELSE /\ output' = Output(apiModelIds, result)
          /\ outputFile' = FileOf(output')
          /\ step' = "exited"
          /\ exitCode' = 0
  /\ UNCHANGED <<apiModelIds, freeModelNames, fetch, matchVars, syncVars>>

NextScrape ==
  \/ FetchModels
  \/ ScrapeFreeModels
  \/ StartLLM
  \/ LLMSuccess
  \/ LLMFailure
  \/ DelayElapsed
  \/ MatchSettled

SpecScrape == InitScrape /\ [][NextScrape]_vars

(***************************************************************************)
(* fetchModels in detail: the attempts of withRetry.  A request ends with  *)
(* a list of identifiers, with a response that is not ok, with a thrown    *)
(* error of fetchWithTimeout, or with a body that fails ApiResponseSchema.  *)
(***************************************************************************)
FetchOk(ids) == [kind |-> "ok", status |-> 200, ids |-> ids]

FetchStatus(status) == [kind |-> "status", status |-> status, ids |-> <<>>]

FetchThrown == [kind |-> "thrown", status |-> 0, ids |-> <<>>]

FetchSchema == [kind |-> "schema", status |-> 200, ids |-> <<>>]

FetchOutcomes ==
  { FetchOk(<<IdAB, IdABFree>>), FetchOk(<<>>), FetchStatus(404), FetchStatus(429),
    FetchStatus(500), FetchThrown, FetchSchema }

isRetryableStatusOnly5xx(status) == status >= 500

\* isRetryable of the scraper (lines 30-32)
isRetryableStatus(status) == status >= 500 \/ status = 429

\* the error the callback of fetchModels throws for outcome o (lines 68-77)
FetchErrorClass(o) ==
  IF o.kind = "status" /\ ~isRetryableStatus(o.status)
  THEN "NonRetryableError" ELSE "Error"

\* delay = config.initialDelayMs * Math.pow(2, attempt - 1) (line 49)
RetryDelay(n) == initialDelayMs * 2 ^ (n - 1)

InitFetch ==
  /\ entry = "matchModelsWithLLM"
  /\ apiIds = Arr(<<>>) /\ names = Arr(<<>>)
  /\ pc = "idle" /\ maps = NoMaps /\ candidates = <<>> /\ attempt = 0
  /\ requests = 0 /\ delays = <<>> /\ lastErr = NoErr /\ caught = NoErr
  /\ error = Ok /\ llmMatches = <<>> /\ result = <<>>
  /\ maxRetries \in 0..RetryLimit
  /\ messages = <<>>
  /\ response = NoResponse
  /\ invocations = <<>>
  /\ hasKey = TRUE
  /\ step = "fetchModels"
  /\ apiModelIds = <<>>
  /\ freeModelNames = <<>>
  /\ output = NoOutput
  /\ outputFile \in {NoFile, FileOf(PreviousOutput)}
  /\ exitCode = 0
  /\ fetch = NoFetch
  /\ SyncIdle

\* scrape calls fetchModels and withRetry issues its first request, or
\* throws at once when maxRetries is below 1 (lines 101, 41-43, 60)
FetchStart ==
  /\ step = "fetchModels" /\ fetch.pc = "idle"
  /\ IF maxRetries >= 1
     THEN /\ fetch' = [fetch EXCEPT !.pc = "calling", !.attempt = 1, !.requests = 1]
          /\ UNCHANGED <<step, output, outputFile, exitCode>>
     ELSE /\ fetch' = [fetch EXCEPT !.pc = "threw", !.thrown = "Error"]
          /\ ExitFailure
  /\ UNCHANGED <<apiModelIds, freeModelNames, matchVars, syncVars>>

\* the request settles and withRetry runs to its next suspension, its
\* return or its throw (lines 43-60, 66-81, 148-151)
FetchSettle ==
  /\ step = "fetchModels" /\ fetch.pc = "calling"
  /\ \E o \in FetchOutcomes :
       IF o.kind = "ok"
       THEN /\ fetch' = [fetch EXCEPT !.pc = "returned"]
            /\ apiModelIds' = o.ids
            /\ step' = "scrapeFreeModels"
            /\ UNCHANGED <<output, outputFile, exitCode>>
       ELSE LET err == [kind |-> o.kind, status |-> o.status]
            IN  IF FetchErrorClass(o) = "NonRetryableError"
                THEN /\ fetch' = [fetch EXCEPT !.pc = "threw", !.lastError = err,
                                               !.thrown = "NonRetryableError"]
                     /\ ExitFailure /\ UNCHANGED apiModelIds
                ELSE IF fetch.attempt < maxRetries
                THEN /\ fetch' = [fetch EXCEPT
                                    !.pc = "delaying", !.lastError = err,
                                    !.delays = Append(@, RetryDelay(fetch.attempt))]
                     /\ UNCHANGED <<step, apiModelIds, output, outputFile, exitCode>>
                ELSE /\ fetch' = [fetch EXCEPT !.pc = "threw", !.lastError = err,
                                               !.thrown = "Error"]
                     /\ ExitFailure /\ UNCHANGED apiModelIds
  /\ UNCHANGED <<freeModelNames, matchVars, syncVars>>

\* the delay of withRetry elapses and the next request is issued
FetchDelayElapsed ==
  /\ step = "fetchModels" /\ fetch.pc = "delaying"
  /\ fetch' = [fetch EXCEPT !.pc = "calling", !.attempt = @ + 1, !.requests = @ + 1]
  /\ UNCHANGED <<step, apiModelIds, freeModelNames, output, outputFile, exitCode>>
  /\ UNCHANGED <<matchVars, syncVars>>

NextFetch == FetchStart \/ FetchSettle \/ FetchDelayElapsed

SpecFetch == InitFetch /\ [][NextFetch]_vars

(***************************************************************************)
(* Several invocations of the matcher in one process.  An invocation runs  *)
(* without interruption between its suspension points (the awaits of       *)
(* callLLM); at a suspension point any other invocation may run.  Each     *)
(* invocation is a record of its arguments, its local constants and        *)
(* variables, and the outcomes the backend gives to its calls, in order.   *)
(***************************************************************************)
Invocations == 1..MaxInvocations

Answer(c) == [ok |-> TRUE, content |-> c, err |-> NoErr]

Failure(e) == [ok |-> FALSE, content |-> Absent, err |-> e]

MatchesAB == Object(<<[key |-> "matches", value |-> Array(<<Pair(NameAb, IdABUpper)>>)]>>)

\* the outcomes of the backend calls of one invocation, one per attempt
Scripts ==
  { <<Answer(MatchesAB)>>, <<Answer(Absent)>>, <<Failure(APIError(400))>>,
    <<Failure(APIError(429)), Answer(MatchesAB)>>,
    <<Failure(APIError(429)), Failure(APIError(500)), Failure(APIError(429))>> }

Call(e, ids, nms, script) ==
  [entry |-> e, apiIds |-> Arr(ids), names |-> Arr(nms), script |-> script,
   pc |-> "start", maps |-> NoMaps, candidates |-> <<>>, attempt |-> 0,
   lastErr |-> NoErr, result |-> <<>>]

CallInputs == { <<IdABUpper, IdABFree>>, <<IdAB>> } \X { <<NameAb>> }

Calls ==
  { Call("matchModelsWithLLM", in[1], in[2], sc) : in \in CallInputs, sc \in Scripts }
    \cup { Call("matchModels", in[1], in[2], <<>>) : in \in CallInputs }

InitConcurrent ==
  /\ MatcherIdle
  /\ hasKey = TRUE
  /\ invocations \in [Invocations -> Calls]
  /\ ScrapeIdle
  /\ SyncIdle

OtherIndex(invs, i) == invs[CHOOSE j \in DOMAIN invs : j # i].maps

\* const maps = buildMaps(apiIds): the index invocation i reads after its
\* awaits is the local constant of that invocation (lines 229, 244-259, 270)
OwnIndex(invs, i) == invs[i].maps

\* the invocation returns v
Return(i, v) ==
  invocations' = [invocations EXCEPT ![i].pc = "returned", ![i].result = v]

\* matchModels (lines 98-101), which has no suspension point
ConcurrentMatchModels ==
  /\ \E i \in Invocations :
       LET c == invocations[i]
       IN  /\ c.pc = "start" /\ c.entry = "matchModels"
           /\ IF validate(c.apiIds, c.names) # Ok
              THEN invocations' = [invocations EXCEPT ![i].pc = "threw"]
              ELSE LET m == buildMaps(c.apiIds.items)
                   IN  invocations' =
                         [invocations EXCEPT
                            ![i].maps = m, ![i].pc = "returned",
                            ![i].result = matchWithNormalization(c.names.items, m)]
  /\ UNCHANGED <<entry, apiIds, names, hasKey, pc, maps, candidates, attempt,
                 requests, delays, lastErr, caught, error, llmMatches, result,
                 maxRetries, response, messages>>
  /\ UNCHANGED <<scrapeVars, syncVars>>

\* matchModelsWithLLM up to its first suspension (lines 225-243, 159-166)
ConcurrentStartLLM ==
  /\ \E i \in Invocations :
       LET c == invocations[i]
           m == buildMaps(c.apiIds.items)
       IN  /\ c.pc = "start" /\ c.entry = "matchModelsWithLLM"
           /\ IF validate(c.apiIds, c.names) # Ok
              THEN invocations' = [invocations EXCEPT ![i].pc = "threw"]
              ELSE IF EmptyNames(c.names.items)
              THEN Return(i, <<>>)
              ELSE IF ~hasKey
              THEN invocations' =
                     [invocations EXCEPT
                        ![i].maps = m, ![i].pc = "returned",
                        ![i].result = NoKeyResult(c.names.items, m)]
              ELSE IF maxRetries >= 1
              THEN invocations' =
                     [invocations EXCEPT
                        ![i].maps = m,
                        ![i].candidates = prefilterCandidates(c.apiIds.items, c.names.items),
                        ![i].attempt = 1, ![i].pc = "calling"]
              ELSE invocations' =
                     [invocations EXCEPT
                        ![i].maps = m,
                        ![i].candidates = prefilterCandidates(c.apiIds.items, c.names.items),
                        ![i].pc = "returned",
                        ![i].result = CatchResult(c.names.items, m)]
  /\ UNCHANGED <<entry, apiIds, names, hasKey, pc, maps, candidates, attempt,
                 requests, delays, lastErr, caught, error, llmMatches, result,
                 maxRetries, response, messages>>
  /\ UNCHANGED <<scrapeVars, syncVars>>

\* the backend call of an invocation settles and the invocation runs to its
\* next suspension or to its return (lines 167-178, 244-271)
ConcurrentSettle ==
  /\ \E i \in Invocations :
       LET c == invocations[i]
           o == c.script[c.attempt]
           m == OwnIndex(invocations, i)
       IN  /\ c.pc = "calling"
           /\ IF o.ok
              THEN Return(i, Reconcile(IF o.content = Absent THEN EmptyObject ELSE o.content,
                                       c.names.items, m))
              ELSE IF ~isRetryable(o.err)
              THEN invocations' =
                     [invocations EXCEPT
                        ![i].lastErr = AsError(o.err), ![i].pc = CatchOutcome(o.err),
                        ![i].result = CatchResult(c.names.items, m)]
              ELSE IF MoreAttempts(c.attempt)
              THEN invocations' =
                     [invocations EXCEPT
                        ![i].lastErr = AsError(o.err), ![i].pc = "delaying"]
              ELSE invocations' =
                     [invocations EXCEPT
                        ![i].lastErr = AsError(o.err),
                        ![i].pc = CatchOutcome(ExhaustedError(AsError(o.err))),
                        ![i].result = CatchResult(c.names.items, m)]
  /\ UNCHANGED <<entry, apiIds, names, hasKey, pc, maps, candidates, attempt,
                 requests, delays, lastErr, caught, error, llmMatches, result,
                 maxRetries, response, messages>>
  /\ UNCHANGED <<scrapeVars, syncVars>>

\* the backoff delay of an invocation elapses and its next attempt is issued
ConcurrentDelayElapsed ==
  /\ \E i \in Invocations :
       /\ invocations[i].pc = "delaying"
       /\ invocations' =
            [invocations EXCEPT ![i].attempt = @ + 1, ![i].pc = "calling"]
  /\ UNCHANGED <<entry, apiIds, names, hasKey, pc, maps, candidates, attempt,
                 requests, delays, lastErr, caught, error, llmMatches, result,
                 maxRetries, response, messages>>
  /\ UNCHANGED <<scrapeVars, syncVars>>

NextConcurrent ==
  \/ ConcurrentMatchModels
  \/ ConcurrentStartLLM
  \/ ConcurrentSettle
  \/ ConcurrentDelayElapsed

SpecConcurrent == InitConcurrent /\ [][NextConcurrent]_vars

(***************************************************************************)
(* Runs of sync.sh.  Each run is a process; a step is one command that     *)
(* reads or writes the lock directory, the cache file or the config.       *)
(***************************************************************************)
InitSync ==
  /\ MatcherIdle
  /\ invocations = <<>>
  /\ hasKey = FALSE
  /\ ScrapeIdle
  /\ clock = 0
  /\ cache \in {NoCache, CacheOf(0, <<IdADotB>>)}
  /\ \E e \in Environments : conf = e[1] /\ jq = e[2] /\ node = e[3]
  /\ lockDir = FALSE
  /\ run = [p \in Runs |-> IdleRun]

\* the run ends: the EXIT trap, when set, removes the lock directory
Exit(p, status) ==
  /\ run' = [run EXCEPT ![p] = [IdleRun EXCEPT !.pc = "done", !.status = status]]
  /\ lockDir' = IF run[p].trap THEN FALSE ELSE lockDir

\* the run starts: mkdir -p "$DIR" and the call of lock (lines 83-84, 17)
Start(p) ==
  /\ run[p].pc = "idle"
  /\ run' = [run EXCEPT ![p].pc = "lock", ![p].wait = 0]
  /\ UNCHANGED <<clock, cache, conf, lockDir, jq, node>>
  /\ UNCHANGED <<matchVars, scrapeVars>>

\* one round of the loop of lock(): mkdir succeeds and the trap is set, or
\* the wait limit is reached and lock returns 0, or the run sleeps
TryLock(p) ==
  /\ run[p].pc = "lock"
  /\ IF ~lockDir
     THEN /\ lockDir' = TRUE
          /\ run' = [run EXCEPT ![p].pc = "check", ![p].trap = TRUE]
     ELSE IF run[p].wait >= LockWaits
     THEN /\ run' = [run EXCEPT ![p].pc = "check"]
          /\ UNCHANGED lockDir
     ELSE /\ run' = [run EXCEPT ![p].wait = @ + 1]
          /\ UNCHANGED lockDir
  /\ UNCHANGED <<clock, cache, conf, jq, node>>
  /\ UNCHANGED <<matchVars, scrapeVars>>

\* the cache check (lines 86-93)
CheckCache(p) ==
  /\ run[p].pc = "check"
  /\ IF cache.exists /\ Fresh(clock - cache.mtime)
     THEN Exit(p, 0)
     ELSE /\ run' = [run EXCEPT ![p].pc = "fetch"]
          /\ UNCHANGED lockDir
  /\ UNCHANGED <<clock, cache, conf, jq, node>>
  /\ UNCHANGED <<matchVars, scrapeVars>>

\* parse_jq and parse_node succeed on a response that carries the file
ParseJq(r) == r.kind = "ok"

ParseNode(r) == r.kind = "ok"

ParsedAlways(r) == TRUE

\* lines 98-104
Parsed(r) ==
  IF jq THEN ParseJq(r) \/ (node /\ ParseNode(r))
  ELSE IF node THEN ParseNode(r)
  ELSE FALSE

\* ids after parsing: parse_jq sets the modelIds of the file (line 67),
\* parse_node the whole of out (lines 79-80: $'\0' is the empty string, so
\* ${out#*} removes nothing)
ParsedIds(r) == IF jq /\ ParseJq(r) THEN r.modelIds ELSE Mangled

\* data after parsing: the decoded file (line 65), or nothing after
\* parse_node (${out%%*} removes everything)
ParsedData(ids) == IF ids = Mangled THEN EmptyText ELSE ids

\* curl and the parsing of its response (lines 95-104)
Fetch(p) ==
  /\ run[p].pc = "fetch"
  /\ \E r \in Responses :
       IF r.kind \in {"failed", "empty"} \/ ~Parsed(r)
       THEN Exit(p, 0)
       ELSE /\ run' = [run EXCEPT ![p].pc = "save", ![p].ids = ParsedIds(r)]
            /\ UNCHANGED lockDir
  /\ UNCHANGED <<clock, cache, conf, jq, node>>
  /\ UNCHANGED <<matchVars, scrapeVars>>

\* save "$data" (lines 56-59, 108, 113); when it fails set -e ends the run
Save(p) ==
  /\ run[p].pc = "save"
  /\ \/ /\ cache' = CacheOf(clock, ParsedData(run[p].ids))
        /\ run' = [run EXCEPT ![p].pc = "update"]
        /\ UNCHANGED lockDir
     \/ /\ Exit(p, 1)
        /\ UNCHANGED cache
  /\ UNCHANGED <<clock, conf, jq, node>>
  /\ UNCHANGED <<matchVars, scrapeVars>>

\* update_conf and the end of the script (lines 109-110, 114)
UpdateConf(p) ==
  /\ run[p].pc = "update"
  /\ conf' = update_conf(conf, node, run[p].ids)
  /\ Exit(p, 0)
  /\ UNCHANGED <<clock, cache, jq, node>>
  /\ UNCHANGED <<matchVars, scrapeVars>>

\* the n-th instant at which the clock is read: the instants are the
\* multiples of MAX_AGE and the second before each of them
Instant(n) == (n \div 2) * MAX_AGE + (n % 2) * (MAX_AGE - 1)

\* time passes, up to the next instant
Tick ==
  /\ clock < Instant(MaxTicks)
  /\ clock' = IF clock % MAX_AGE = 0 THEN clock + (MAX_AGE - 1) ELSE clock + 1
  /\ UNCHANGED <<cache, conf, lockDir, run, jq, node>>
  /\ UNCHANGED <<matchVars, scrapeVars>>

NextSync ==
  \/ \E p \in Runs : Start(p)
  \/ \E p \in Runs : TryLock(p)
  \/ \E p \in Runs : CheckCache(p)
  \/ \E p \in Runs : Fetch(p)
  \/ \E p \in Runs : Save(p)
  \/ \E p \in Runs : UpdateConf(p)
  \/ Tick

SpecSync == InitSync /\ [][NextSync]_vars

(***************************************************************************)
(* Properties.                                                             *)
(***************************************************************************)
U == apiIds.items

N == names.items

Returned == pc = "returned"

\* the deterministic matcher's result for names nms over the index of ids
Deterministic(ids, nms) == matchWithNormalization(nms, buildMaps(ids))

\* an argument validation must reject, stated on the argument itself
BadArg(a) ==
  \/ ~a.isArray
  \/ \E i \in 1..Len(a.items) :
       \/ a.items[i] = NotAString
       \/ \A k \in 1..Len(a.items[i]) : a.items[i][k] \in Whitespace

\* C1: every identifier returned by matchModels or matchModelsWithLLM is an
\* element of the identifier list U, with the casing it has in U.
C1_Soundness ==
  Returned => \A i \in 1..Len(result) : \E j \in 1..Len(U) : result[i] = U[j]

\* an LLM pair naming an identifier outside U was received, other
\* identifiers were returned
C1_Witness ==
  /\ Returned /\ entry = "matchModelsWithLLM"
  /\ \E i \in 1..Len(llmMatches) : llmMatches[i].apiId = IdInvented
  /\ Len(result) >= 1

\* C2: for valid inputs matchModelsWithLLM never fails: the only failure it
\* propagates is the InvalidInput of validation, and every terminal failure
\* of the backend call ends in a return.
C2_NeverFails ==
  /\ (entry = "matchModelsWithLLM" /\ pc = "threw")
       => (BadArg(apiIds) \/ BadArg(names)) /\ error \in InvalidInputMessages
  /\ caught # NoErr => Returned
  /\ pc \in {"calling", "delaying"} => attempt \in 1..maxRetries

\* every attempt failed with a retryable error and the invocation returned
C2_Witness ==
  /\ Returned /\ entry = "matchModelsWithLLM"
  /\ caught # NoErr /\ requests = maxRetries /\ isRetryable(lastErr)

\* C3: an argument that is not a sequence, or holds an element that is not
\* a string with non-whitespace content, makes both entry points fail with
\* InvalidInput before any index is built or any request is issued.
C3_Validation ==
  (pc # "start" /\ (BadArg(apiIds) \/ BadArg(names)))
    => /\ pc = "threw"
       /\ error \in InvalidInputMessages
       /\ maps = NoMaps
       /\ requests = 0
       /\ delays = <<>>

\* N is empty, U is invalid, a credential is configured: InvalidInput
C3_Witness ==
  /\ pc = "threw" /\ entry = "matchModelsWithLLM" /\ hasKey
  /\ names = Arr(<<>>) /\ BadArg(apiIds) /\ apiIds.isArray

\* C4: without credential matchModelsWithLLM returns exactly the
\* deterministic result for all names, with no request and no delay.
C4_NoCredential ==
  (entry = "matchModelsWithLLM" /\ ~hasKey /\ Returned)
    => /\ result = Deterministic(U, N)
       /\ requests = 0
       /\ delays = <<>>

C4_Witness ==
  /\ entry = "matchModelsWithLLM" /\ ~hasKey /\ Returned
  /\ Len(N) = 2 /\ Len(result) >= 1

\* C5: when the call-with-retry step fails terminally, the invocation
\* returns exactly the deterministic result over the full name list.
C5_TerminalFallback ==
  /\ (Returned /\ caught # NoErr) => result = Deterministic(U, N)
  /\ (Returned /\ lastErr # NoErr) => caught # NoErr
  /\ caught # NoErr => (~isRetryable(caught) \/ requests = maxRetries)

\* a non-retryable failure on the second attempt, a non-empty fallback
C5_Witness ==
  /\ Returned /\ caught # NoErr /\ ~isRetryable(caught) /\ requests = 2
  /\ Len(result) >= 1

\* C6: the returned list never holds the same identifier twice.
C6_NoDuplicates ==
  Returned => \A i, j \in 1..Len(result) : i # j => result[i] # result[j]

\* two accepted LLM pairs and the deterministic fallback resolve to one
\* identifier
C6_Witness ==
  /\ Returned /\ entry = "matchModelsWithLLM" /\ Len(llmMatches) = 2
  /\ llmMatches[1].apiId = llmMatches[2].apiId
  /\ ToLowerCase(llmMatches[1].apiId) \in DOMAIN maps.lower
  /\ \E i \in 1..Len(N) :
       /\ \A k \in 1..2 : ToLowerCase(llmMatches[k].displayName) # ToLowerCase(N[i])
       /\ Deterministic(U, <<N[i]>>) = <<maps.lower[ToLowerCase(llmMatches[1].apiId)]>>
  /\ Len(result) = 1

\* C7: the number of identifiers returned does not exceed the number of
\* display names.
C7_AtMostOnePerName == Returned => Len(result) <= Len(N)

\* the identifier of ids stored under normalized key k: the last one whose
\* normalized form is k, Undefined when there is none
Stored(ids, k) ==
  IF \E j \in 1..Len(ids) : norm(ids[j]) = k
  THEN LET last == CHOOSE j \in 1..Len(ids) :
                     /\ norm(ids[j]) = k
                     /\ \A h \in (j + 1)..Len(ids) : norm(ids[h]) # k
       IN  ids[last]
  ELSE Undefined

\* r(n): the identifier under normalize(n) or, only if that key is absent,
\* the identifier under normalize(n) + "free"
Resolved(ids, n) ==
  IF Stored(ids, norm(n)) # Undefined THEN Stored(ids, norm(n))
  ELSE Stored(ids, norm(n) \o FreeSuffix)

\* C8: matchModels(U,N) returns exactly the set of r(n) for the names n of N
\* for which r(n) is defined; other names contribute nothing, without error.
C8_DeterministicResult ==
  (entry = "matchModels" /\ pc # "start" /\ ~BadArg(apiIds) /\ ~BadArg(names))
    => /\ Returned
       /\ Range(result) = { Resolved(U, N[i]) : i \in 1..Len(N) } \ {Undefined}

\* one name resolves through a key two identifiers share, one resolves to
\* nothing
C8_Witness ==
  /\ entry = "matchModels" /\ Returned /\ Len(N) = 2 /\ Len(U) = 2
  /\ norm(U[1]) = norm(U[2])
  /\ Resolved(U, N[1]) = U[2]
  /\ Resolved(U, N[2]) = Undefined
  /\ result = <<U[2]>>

\* C9: a name whose key k belongs to no identifier while k + "free" does
\* resolves to the identifier under k + "free"; when both keys exist the
\* name resolves to the identifier under k, and the one under k + "free" is
\* returned only if another name has k + "free" as its own key.
C9_FreeFallback ==
  (entry = "matchModels" /\ Returned)
    => \A i \in 1..Len(N) :
         LET k == norm(N[i])
             plain == Stored(U, k)
             free == Stored(U, k \o FreeSuffix)
         IN  /\ (plain = Undefined /\ free # Undefined) => free \in Range(result)
             /\ (plain # Undefined /\ free # Undefined)
                  => /\ plain \in Range(result)
                     /\ free \in Range(result)
                          => \E j \in 1..Len(N) : norm(N[j]) = k \o FreeSuffix

\* U holds identifiers for both k and k + "free": only the one under k is
\* returned
C9_Witness ==
  /\ entry = "matchModels" /\ Returned
  /\ U = <<IdABFree, IdAB>> /\ N = <<NameAB>>
  /\ result = <<IdAB>>

BothCases(c) ==
  IF c \in AsciiUpper THEN {c, LowerOf[c]}
  ELSE IF c \in AsciiLower THEN {c, UpperOf[c]}
  ELSE {c}

RECURSIVE CasePermutations(_)
\* the strings that differ from s only in the case of letters
CasePermutations(s) ==
  IF s = <<>> THEN {<<>>}
  ELSE { <<c>> \o t : c \in BothCases(Head(s)), t \in CasePermutations(Tail(s)) }

ToUpperCase(s) == [i \in 1..Len(s) |-> IF s[i] \in AsciiLower THEN UpperOf[s[i]] ELSE s[i]]

\* the lists obtained from list by replacing one element by a case
\* permutation of it, or all elements by their upper or lower case forms
Recasings(list) ==
  UNION { { [list EXCEPT ![i] = v] : v \in CasePermutations(list[i]) } :
            i \in 1..Len(list) }
    \cup { [i \in 1..Len(list) |-> ToUpperCase(list[i])],
           [i \in 1..Len(list) |-> ToLowerCase(list[i])] }

\* the position in ids of the identifier id
PositionOf(ids, id) == CHOOSE j \in 1..Len(ids) : ids[j] = id

\* C10: the deterministic path is case-insensitive: a case permutation of a
\* display name leaves matchModels(U,N) unchanged, a case permutation of
\* identifiers changes only the casing of the result: the identifiers at
\* the same positions of U are returned.
C10_CaseInsensitive ==
  (entry = "matchModels" /\ Returned)
    => /\ \A N2 \in Recasings(N) : Deterministic(U, N2) = result
       /\ \A U2 \in Recasings(U) :
            LET r2 == Deterministic(U2, N)
            IN  /\ Len(r2) = Len(result)
                /\ \A i \in 1..Len(result) : r2[i] = U2[PositionOf(U, result[i])]

\* mixed-case names matched to an upper-case and a lower-case identifier
C10_Witness ==
  /\ entry = "matchModels" /\ Returned
  /\ N = <<NameAbFree, NameAB>> /\ U = <<IdABFree, IdABUpper>>
  /\ result = <<IdABFree, IdABUpper>>

\* C11: no two identifiers of the result are equal when compared ignoring
\* case, whichever index (lowercase or normalized) each came through.
C11_NoCaseDuplicates ==
  Returned
    => \A i, j \in 1..Len(result) :
         i # j => ToLowerCase(result[i]) # ToLowerCase(result[j])

\* U holds two identifiers differing only in case; one LLM pair is accepted
\* through the lowercase index and another name falls back to the
\* normalized index
C11_Witness ==
  /\ Returned /\ entry = "matchModelsWithLLM"
  /\ U = <<IdABUpper, IdAB>>
  /\ llmMatches = <<Pair(NameABLower, IdABUpper)>>
  /\ N = <<NameAB, NameAb>>
  /\ result = <<IdAB>>

\* C12: every identifier of U whose normalized form equals the normalized
\* form of some display name of N is a member of prefilterCandidates(U,N).
C12_PrefilterSound ==
  (entry = "matchModelsWithLLM" /\ pc \in {"calling", "delaying"})
    => \A j \in 1..Len(U) :
         (\E i \in 1..Len(N) : norm(N[i]) = norm(U[j]))
           => U[j] \in Range(candidates)

\* C13: with N empty or U empty (arguments valid) both entry points return
\* the empty list without error, whatever the backend returns; with N empty
\* no backend request is issued.
C13_EmptyInputs ==
  (~BadArg(apiIds) /\ ~BadArg(names) /\ (Len(N) = 0 \/ Len(U) = 0))
    => /\ pc # "threw"
       /\ Returned => result = <<>>
       /\ (Len(N) = 0 /\ pc # "start")
            => Returned /\ requests = 0 /\ delays = <<>> /\ llmMatches = <<>>

\* U is empty, a credential is configured and the backend named two
\* identifiers
C13_Witness ==
  /\ Returned /\ entry = "matchModelsWithLLM" /\ hasKey
  /\ Len(U) = 0 /\ Len(N) = 2 /\ Len(llmMatches) = 2 /\ requests = 1
  /\ result = <<>>

(***************************************************************************)
(* Properties of the scraper, under SpecScrape.                            *)
(***************************************************************************)
\* the run of the scraper has ended with an Output written
Produced == step = "exited" /\ exitCode = 0

\* C14: the modelIds of every Output produced by scrape() are in strictly
\* ascending order of the default string order (sorted, no duplicates),
\* whatever order the matcher returned them in.
C14_ModelIdsAscending ==
  Produced
    => \A i \in 1..Len(output.modelIds), j \in 1..Len(output.modelIds) :
         i < j => StringLess(output.modelIds[i], output.modelIds[j])

\* the matcher returned "ab-free" before "a-b"; the Output lists "a-b" first
C14_Witness ==
  /\ Produced
  /\ result = <<IdABFree, IdAB>>
  /\ output.modelIds = <<IdAB, IdABFree>>

\* C15: no output file with empty modelIds is ever written: when extraction
\* returns no display name (the matcher is then not invoked) or the matcher
\* returns no identifier, the run ends with exit status 1, and a run that
\* ends with status 1 leaves the output file as it was.
C15_NeverEmptyOutput ==
  /\ [](/\ outputFile.exists => Len(outputFile.content.modelIds) > 0
        /\ (step = "exited" /\ Len(freeModelNames) = 0)
             => exitCode = 1 /\ pc = "idle" /\ requests = 0
        /\ (step = "exited" /\ pc = "returned" /\ Len(result) = 0)
             => exitCode = 1)
  /\ [][exitCode' = 1 => outputFile' = outputFile]_vars

\* the matcher was invoked and returned no identifier; the previous
\* artifact is still in place
C15_Witness ==
  /\ step = "exited" /\ exitCode = 1
  /\ Len(freeModelNames) > 0 /\ pc = "returned" /\ result = <<>>
  /\ outputFile = FileOf(PreviousOutput)

\* C16: raw.allModels of a produced Output has one entry per fetched
\* identifier, in order; an entry is marked free exactly when its modelId
\* is in modelIds; every identifier of modelIds has an entry marked free.
C16_AllModelsConsistent ==
  Produced
    => LET all == output.raw.allModels
       IN  /\ outputFile = FileOf(output)
           /\ Len(all) = Len(apiModelIds)
           /\ output.raw.totalModelsFound = Len(apiModelIds)
           /\ \A i \in 1..Len(all) :
                /\ all[i].modelId = apiModelIds[i]
                /\ all[i].isFree <=> all[i].modelId \in Range(output.modelIds)
           /\ \A k \in 1..Len(output.modelIds) :
                \E i \in 1..Len(all) :
                  all[i].modelId = output.modelIds[k] /\ all[i].isFree

\* two identifiers were fetched, one of them is free and the other is not
C16_Witness ==
  /\ Produced
  /\ Len(apiModelIds) = 2 /\ Len(output.modelIds) = 1
  /\ \E i \in 1..2 : ~output.raw.allModels[i].isFree
  /\ \E i \in 1..2 : output.raw.allModels[i].isFree

(***************************************************************************)
(* Properties of sync.sh, under SpecSync.                                  *)
(***************************************************************************)
\* the cache file exists and is younger than MAX_AGE
CacheIsFresh == cache.exists /\ clock - cache.mtime < MAX_AGE

\* C17: a run that checks the cache while it exists and its age is below
\* MAX_AGE exits with status 0 and leaves the cache file and the config as
\* they are; a run goes on to fetch only from the cache check and only when
\* the cache is missing or its age is at least MAX_AGE.
C17_CacheTTL ==
  [][\A p \in Runs :
       /\ (run[p].pc = "check" /\ run'[p] # run[p])
            => IF CacheIsFresh
               THEN /\ run'[p].pc = "done" /\ run'[p].status = 0
                    /\ cache' = cache /\ conf' = conf
               ELSE run'[p].pc = "fetch"
       /\ (run[p].pc # "fetch" /\ run'[p].pc = "fetch")
            => run[p].pc = "check" /\ ~CacheIsFresh]_vars

\* one second before the initial cache reaches MAX_AGE a run has ended and
\* the cache is the one it found
C17_Witness ==
  /\ clock = MAX_AGE - 1
  /\ cache = CacheOf(0, <<IdADotB>>)
  /\ run[1].pc = "done" /\ run[1].status = 0

\* the run is past lock() and has not ended
InSection(p) == run[p].pc \in {"check", "fetch", "save", "update"}

\* C18: at most one run at a time is past lock() and inside the section
\* that checks the cache age, fetches, saves the cache and updates the
\* config.
C18_MutualExclusion ==
  \A p, q \in Runs : p # q => ~(InSection(p) /\ InSection(q))

\* the keys of object d other than those of the set ks are those of c, with
\* the same values
SameExcept(c, d, ks) ==
  /\ DOMAIN d \ ks = DOMAIN c \ ks
  /\ \A k \in DOMAIN c \ ks : d[k] = c[k]

\* the providers of config object c
Providers(c) == IF "provider" \in DOMAIN c THEN c["provider"] ELSE NoKeys

\* C19: every step leaves every key of the config other than
\* provider.opencode and disabled_providers with the value it had, other
\* providers included, in both branches of update_conf; a config file that
\* does not exist is not created.
C19_OnlyOpencodeChanges ==
  [][/\ conf'.exists = conf.exists
     /\ conf'.valid = conf.valid
     /\ SameExcept(conf.json, conf'.json, {"provider", "disabled_providers"})
     /\ SameExcept(Providers(conf.json), Providers(conf'.json), {"opencode"})]_vars

\* the empty-list branch has removed the whitelist of a config that names
\* another provider, another disabled provider and another setting
C19_Witness ==
  /\ conf.exists /\ conf.valid
  /\ conf.json = [provider |-> [anthropic |-> Anthropic],
                  disabled_providers |-> <<"openai", "opencode">>,
                  someOtherSetting |-> TRUE]

\* provider.opencode of config object c is { whitelist: ... }
Whitelisted(c) ==
  /\ "opencode" \in DOMAIN Providers(c)
  /\ "whitelist" \in DOMAIN Providers(c)["opencode"]

\* how often 'opencode' occurs in disabled_providers of config object c
Disabled(c) ==
  IF "disabled_providers" \in DOMAIN c
  THEN Cardinality({ i \in 1..Len(c["disabled_providers"]) :
                       c["disabled_providers"][i] = "opencode" })
  ELSE 0

\* run p executes update_conf in this step
Updates(p) == run[p].pc = "update" /\ run'[p].pc = "done"

\* update_conf rewrites the config: the file exists, JSON.parse accepts it
\* and node is installed
Applicable == conf.exists /\ conf.valid /\ node

\* C20: after the update_conf of a sync, on a config that exists and parses
\* and with node installed, a non-empty id list leaves provider.opencode
\* whitelisted and not disabled and an empty one leaves it disabled and not
\* whitelisted, so the provider is never both whitelisted and disabled.
C20_UpdateConf ==
  [][\A p \in Runs :
       (Updates(p) /\ Applicable)
         => /\ ~(Whitelisted(conf'.json) /\ Disabled(conf'.json) > 0)
            /\ IF run[p].ids # <<>>
               THEN Whitelisted(conf'.json) /\ Disabled(conf'.json) = 0
               ELSE ~Whitelisted(conf'.json) /\ Disabled(conf'.json) > 0]_vars

\* C21: a run that leaves the fetch-and-parse stage by a failure (fetch
\* failed, empty response, parse failed, neither jq nor node installed)
\* ends with status 0, and no step of a run up to and including that stage
\* changes the cache file or the config; without jq and node every run that
\* reaches the stage ends there.
C21_FailuresAreSilent ==
  [][\A p \in Runs :
       (run[p].pc \in {"idle", "lock", "check", "fetch"} /\ run'[p] # run[p])
         => /\ cache' = cache /\ conf' = conf
            /\ run'[p].pc = "done" => run'[p].status = 0
            /\ run[p].pc = "fetch"
                 => /\ run'[p].pc \in {"done", "save"}
                    /\ (~jq /\ ~node) => run'[p].pc = "done"]_vars

\* without jq and node a run has ended although there is no cache
C21_Witness ==
  /\ ~jq /\ ~node
  /\ run[1].pc = "done" /\ run[1].status = 0
  /\ cache = NoCache /\ conf = RichConf

(***************************************************************************)
(* Properties of the retry loop, under SpecRetry.                          *)
(***************************************************************************)
\* callLLM ended with the terminal failure of line 178
Exhausted == caught # NoErr /\ "exhausted" \in DOMAIN caught

\* callLLM ended by rethrowing a failure (line 170)
Rethrown == caught # NoErr /\ "exhausted" \notin DOMAIN caught

\* C22: the backend is called at most maxRetries times (never when
\* maxRetries is 0); a further attempt follows only a retryable failure and
\* one delay; a success or a non-retryable failure ends the invocation with
\* no further call or delay; after maxRetries retryable failures the
\* terminal failure carries the last message and the attempt count.
C22_RetryProtocol ==
  /\ [](/\ requests <= maxRetries /\ attempt = requests
        /\ (pc = "calling" /\ attempt > 1)
             => lastErr # NoErr /\ isRetryable(lastErr)
        /\ pc = "delaying" => isRetryable(lastErr) /\ Len(delays) = requests
        /\ (pc # "delaying" /\ requests > 0) => Len(delays) = requests - 1
        /\ Rethrown => ~isRetryable(caught) /\ lastErr = AsError(caught)
        /\ Exhausted
             => /\ requests = maxRetries /\ caught.attempts = maxRetries
                /\ maxRetries > 0
                     => isRetryable(lastErr) /\ caught.message = lastErr.message)
  /\ [][/\ requests' > requests => pc \in {"start", "delaying"}
        /\ pc \in {"returned", "threw"} => UNCHANGED <<requests, delays>>
        /\ (pc = "calling" /\ pc' # "delaying")
             => UNCHANGED <<requests, delays>> /\ pc' \in {"returned", "threw"}]_vars

\* three retryable failures with maxRetries 3: two delays, then the
\* terminal failure
C22_Witness ==
  /\ maxRetries = 3 /\ requests = 3 /\ Len(delays) = 2
  /\ Exhausted /\ caught.attempts = 3
  /\ lastErr = APIError(429)

\* a failure below HTTP: the message names the network, a timeout or a
\* connection reset, or the client library reports it as its connection error
TransportLevel(err) ==
  \/ err = ConnectionError
  \/ LET msg == ToLowerCase(err.message)
     IN  Includes(msg, MsgNetwork) \/ Includes(msg, MsgTimeout)
           \/ Includes(msg, MsgEconnreset)

\* the failures the classification is to call retryable, whatever their class
RetryableFailure(err) ==
  \/ err.hasStatus /\ (err.status = 429 \/ err.status >= 500)
  \/ TransportLevel(err)

\* C23: a failed call is treated as retryable (a delay or the terminal
\* failure follows it) if and only if it is an HTTP 429, an HTTP status of
\* 500 or more or a transport-level error, whatever class carries it; every
\* failure that is rethrown at once is none of these.
C23_RetryableIff ==
  /\ pc = "delaying" => RetryableFailure(lastErr)
  /\ (Exhausted /\ maxRetries > 0) => RetryableFailure(lastErr)
  /\ Rethrown => ~RetryableFailure(caught)

\* C24: the i-th delay of an invocation is initialDelayMs * 2^(i-1), so each
\* delay is twice the one before; there are at most maxRetries - 1 of them,
\* and an invocation that has ended awaited one delay less than it made calls.
C24_Backoff ==
  /\ \A i \in 1..Len(delays) :
       /\ delays[i] = initialDelayMs * 2 ^ (i - 1)
       /\ i > 1 => delays[i] = 2 * delays[i - 1]
  /\ Len(delays) <= (IF maxRetries > 0 THEN maxRetries - 1 ELSE 0)
  /\ (pc \in {"returned", "threw"} /\ requests > 0)
       => Len(delays) = requests - 1

\* the third call succeeds after delays of 1000 and 2000 ms
C24_Witness ==
  /\ pc = "returned" /\ caught = NoErr
  /\ requests = 3 /\ delays = <<initialDelayMs, 2 * initialDelayMs>>

(***************************************************************************)
(* Properties of the reconciliation, under Spec.                           *)
(***************************************************************************)
\* matchModelsWithLLM has returned after a backend call that succeeded
LLMAnswered ==
  /\ entry = "matchModelsWithLLM" /\ Returned
  /\ requests > 0 /\ caught = NoErr

\* the i-th parsed pair names an identifier of U, ignoring case
Accepted(i) ==
  \E u \in Range(U) : ToLowerCase(u) = ToLowerCase(llmMatches[i].apiId)

AcceptedPairs == { i \in 1..Len(llmMatches) : Accepted(i) }

\* the identifiers of U the accepted pairs stand for
AcceptedIds == { maps.lower[ToLowerCase(llmMatches[i].apiId)] : i \in AcceptedPairs }

\* the input names no accepted pair names, ignoring case
UnmatchedNames ==
  SelectSeq(N, LAMBDA n :
    \A i \in AcceptedPairs :
      ToLowerCase(llmMatches[i].displayName) # ToLowerCase(n))

\* C25: after a backend call that succeeds, the returned set is the union of
\* the accepted LLM identifiers and the deterministic matcher's result on
\* exactly the input names no accepted pair names (names compared ignoring
\* case; a name whose only pair was dropped counts as unmatched).
C25_UnmatchedFallback ==
  LLMAnswered
    => Range(result) = AcceptedIds \cup Range(Deterministic(U, UnmatchedNames))

\* one pair is accepted, the only pair of another input name is dropped, and
\* the deterministic matcher finds that name
C25_Witness ==
  /\ LLMAnswered /\ AcceptedPairs # {}
  /\ Len(UnmatchedNames) > 0 /\ Len(UnmatchedNames) < Len(N)
  /\ \E i \in 1..Len(llmMatches) :
       /\ ~Accepted(i)
       /\ llmMatches[i].displayName \in Range(UnmatchedNames)
  /\ Deterministic(U, UnmatchedNames) # <<>>

\* the input names all of whose pairs were dropped
NamedOnlyByDropped ==
  { n \in Range(N) :
      /\ \E i \in 1..Len(llmMatches) : llmMatches[i].displayName = n
      /\ \A i \in AcceptedPairs :
           ToLowerCase(llmMatches[i].displayName) # ToLowerCase(n) }

\* C26: the pairs are looked up, ignoring case, in the index of the full list
\* U; every pair that names an identifier of U contributes an identifier of U
\* in its original casing, whatever the other pairs are and whether or not
\* the identifier was a candidate; a pair that names none contributes
\* nothing, and a name it alone stands for is still matched deterministically.
C26_Reconciliation ==
  LLMAnswered
    => /\ maps = buildMaps(U)
       /\ \A i \in AcceptedPairs :
            \E u \in Range(U) :
              /\ ToLowerCase(u) = ToLowerCase(llmMatches[i].apiId)
              /\ u \in Range(result)
       /\ \A i \in 1..Len(llmMatches) :
            ~Accepted(i) => llmMatches[i].apiId \notin Range(result)
       /\ \A n \in NamedOnlyByDropped :
            Range(Deterministic(U, <<n>>)) \subseteq Range(result)

\* a dropped pair precedes an accepted one whose identifier was not among
\* the candidates of the prompt and is spelled in another case than in U
C26_Witness ==
  /\ LLMAnswered
  /\ \E i, j \in 1..Len(llmMatches) :
       /\ i < j /\ ~Accepted(i) /\ Accepted(j)
       /\ llmMatches[j].apiId \notin Range(U)
       /\ maps.lower[ToLowerCase(llmMatches[j].apiId)] \notin Range(candidates)
       /\ maps.lower[ToLowerCase(llmMatches[j].apiId)] \in Range(result)

(***************************************************************************)
(* Properties of the response parser, under SpecParse.                     *)
(***************************************************************************)
\* the text callLLM returns: content || "{}"
Content == IF response = Absent THEN EmptyObject ELSE response

\* v is a JSON array of {displayName, apiId} objects with string fields
PairsArray(v) ==
  /\ v.kind = "array"
  /\ \A i \in 1..Len(v.items) :
       v.items[i].displayName # NotAString /\ v.items[i].apiId # NotAString

\* the three response shapes: an object with a matches array, a bare array,
\* an object whose first key's value is an array of pairs
AcceptedShape(c) ==
  \/ PairsArray(c)
  \/ /\ c.kind = "object"
     /\ \E i \in 1..Len(c.entries) :
          c.entries[i].key = "matches" /\ PairsArray(c.entries[i].value)
  \/ /\ c.kind = "object" /\ Len(c.entries) > 0
     /\ PairsArray(c.entries[1].value)

\* C27: whatever the content of the response (invalid JSON, an unrecognized
\* shape, an empty object, absent), the parse yields a list of pairs and the
\* invocation returns without an error; the list is empty whenever the
\* content has none of the accepted shapes, and with an empty list the
\* invocation returns the deterministic matcher's result.
C27_ParseTotal ==
  pc \notin {"start", "calling"}
    => /\ pc = "returned" /\ caught = NoErr /\ error = Ok
       /\ DOMAIN llmMatches = 1..Len(llmMatches)
       /\ \A i \in 1..Len(llmMatches) :
            llmMatches[i].displayName # NotAString /\ llmMatches[i].apiId # NotAString
       /\ ~AcceptedShape(Content) => llmMatches = <<>>
       /\ llmMatches = <<>> => result = Deterministic(U, N)

\* a response that is not JSON ends in the deterministic matcher's result
C27_Witness ==
  /\ response.kind = "invalid" /\ Returned /\ requests = 1
  /\ llmMatches = <<>> /\ result # <<>> /\ result = Deterministic(U, N)

\* the value of key k of object c is an array of pairs
PairsUnder(c, k) ==
  \E i \in 1..Len(c.entries) : c.entries[i].key = k /\ PairsArray(c.entries[i].value)

\* C28: the parse returns the pairs of each of the three shapes: those of the
\* matches array of an object, those of a bare array, and those of the array
\* under the first key of an object without matches, whatever other keys and
\* values the object has.
C28_AcceptedShapes ==
  (Returned /\ requests = 1)
    => /\ PairsArray(Content) => llmMatches = Content.items
       /\ (Content.kind = "object" /\ PairsUnder(Content, "matches"))
            => llmMatches = ValueOf(Content, "matches").items
       /\ (/\ Content.kind = "object" /\ Len(Content.entries) > 0
           /\ ~ObjHasKey(Content, "matches")
           /\ PairsArray(Content.entries[1].value))
            => llmMatches = Content.entries[1].value.items

(***************************************************************************)
(* Properties of the empty-result branch, under Spec.                      *)
(***************************************************************************)
\* the result set of line 258: the accepted identifiers and the
\* deterministic matches of the unmatched names
ReconciledSet == AcceptedIds \cup Range(Deterministic(U, UnmatchedNames))

\* C29: if the backend call succeeds and the result set is empty after the
\* reconciliation and the fallback on the unmatched names, the invocation
\* returns the deterministic matcher's result over the full list N.
C29_EmptyResultFallback ==
  (LLMAnswered /\ ReconciledSet = {}) => result = Deterministic(U, N)

\* the response names only an unknown identifier and the deterministic
\* matcher finds nothing for the names
C29_Witness ==
  /\ LLMAnswered /\ ReconciledSet = {}
  /\ llmMatches # <<>> /\ N # <<>>
  /\ result = Deterministic(U, N)

\* C30: whenever the backend call succeeds and no pair is accepted, the
\* invocation returns what matchModels returns for (U, N); the empty-result
\* branch is taken only when that deterministic result is empty, and then
\* the invocation returns the empty list.
C30_NoAcceptedPairIsDeterministic ==
  LLMAnswered
    => /\ AcceptedPairs = {} => result = Deterministic(U, N)
       /\ ReconciledSet = {}
            => /\ AcceptedPairs = {}
               /\ Deterministic(U, N) = <<>>
               /\ result = <<>>

\* every pair of the response is dropped and the names are matched
\* deterministically
C30_Witness ==
  /\ LLMAnswered /\ llmMatches # <<>> /\ AcceptedPairs = {}
  /\ ReconciledSet # {}
  /\ result = Deterministic(U, N)

(***************************************************************************)
(* Properties of the order of requests and delays, under SpecRetry.        *)
(***************************************************************************)
\* the invocation has ended
Ended == pc \in {"returned", "threw"}

\* the requests that have been answered: each failure that was retried
\* started a delay, and the invocation ends on the answer of its last request
Answered == Len(delays) + (IF Ended /\ requests > 0 THEN 1 ELSE 0)

\* the delays that have elapsed: every request but the first follows one
Elapsed == IF requests > 0 THEN requests - 1 ELSE 0

\* C31: at most one backend request is outstanding at any time and a backoff
\* delay never overlaps a request: the requests issued exceed the requests
\* answered by at most one, and only while the call is awaited; the delays
\* started exceed the delays elapsed by at most one, and only while the
\* delay is awaited.
C31_OneAtATime ==
  /\ Answered <= requests /\ requests <= Answered + 1
  /\ Elapsed <= Len(delays) /\ Len(delays) <= Elapsed + 1
  /\ (requests = Answered + 1) <=> pc = "calling"
  /\ (Len(delays) = Elapsed + 1) <=> pc = "delaying"
  /\ ~(requests = Answered + 1 /\ Len(delays) = Elapsed + 1)

\* the third request is outstanding after two delays have elapsed
C31_Witness ==
  /\ pc = "calling" /\ requests = 3 /\ Len(delays) = 2
  /\ Answered = 2 /\ Elapsed = 2

(***************************************************************************)
(* Properties of interleaved invocations, under SpecConcurrent.            *)
(***************************************************************************)
RECURSIVE AloneFrom(_, _, _)
\* what the invocation c returns when it runs alone from its k-th attempt
\* on, with the index m
AloneFrom(c, k, m) ==
  IF k > maxRetries THEN CatchResult(c.names.items, m)
  ELSE LET o == c.script[k]
       IN  IF o.ok
           THEN Reconcile(IF o.content = Absent THEN EmptyObject ELSE o.content,
                          c.names.items, m)
           ELSE IF ~isRetryable(o.err) THEN CatchResult(c.names.items, m)
           ELSE AloneFrom(c, k + 1, m)

\* what the invocation c returns when no other invocation runs
Alone(c) ==
  IF c.entry = "matchModels" THEN Deterministic(c.apiIds.items, c.names.items)
  ELSE AloneFrom(c, 1, buildMaps(c.apiIds.items))

\* C32: invocations interleaved at their suspension points share no state:
\* each returns what it returns when run alone on the same inputs with the
\* same backend outcomes, and the index it holds is the one built from its
\* own identifier list.
C32_Isolation ==
  \A i \in Invocations :
    LET c == invocations[i]
    IN  /\ c.pc # "threw"
        /\ c.pc # "start" => c.maps = buildMaps(c.apiIds.items)
        /\ c.pc = "returned" => c.result = Alone(c)

\* the first invocation has returned "A-B" after a retry while the second,
\* on another identifier list, is between its first and its second call
C32_Witness ==
  /\ invocations[1].pc = "returned" /\ invocations[1].attempt = 2
  /\ invocations[1].result = <<IdABUpper>>
  /\ invocations[2].pc = "delaying" /\ invocations[2].attempt = 1
  /\ invocations[2].apiIds # invocations[1].apiIds

(***************************************************************************)
(* Properties of the identifier index, under Spec.                         *)
(***************************************************************************)
\* the position of the last identifier of U whose lowercase form is k
LastLower(k) ==
  CHOOSE i \in 1..Len(U) :
    ToLowerCase(U[i]) = k /\ \A j \in (i + 1)..Len(U) : ToLowerCase(U[j]) # k

\* the position of the last identifier of U whose normalized key is k
LastNormalized(k) ==
  CHOOSE i \in 1..Len(U) :
    norm(U[i]) = k /\ \A j \in (i + 1)..Len(U) : norm(U[j]) # k

\* C33: building the index never fails on colliding identifiers; under each
\* key (lowercase form, normalized key) the index holds the identifier of U
\* that occurs last with that key, so every value is an element of U; a name
\* whose key is in the index and an accepted LLM apiId resolve to that later
\* identifier, and a single name returns it alone.
C33_LastWriteWins ==
  (pc # "start" /\ ~BadArg(apiIds) /\ ~BadArg(names))
    => /\ pc # "threw" /\ error = Ok
       /\ maps # NoMaps
            => /\ DOMAIN maps.lower = { ToLowerCase(U[i]) : i \in 1..Len(U) }
               /\ DOMAIN maps.normalized = { norm(U[i]) : i \in 1..Len(U) }
               /\ \A k \in DOMAIN maps.lower :
                    maps.lower[k] = U[LastLower(k)] /\ maps.lower[k] \in Range(U)
               /\ \A k \in DOMAIN maps.normalized :
                    /\ maps.normalized[k] = U[LastNormalized(k)]
                    /\ maps.normalized[k] \in Range(U)
       /\ (entry = "matchModels" /\ Returned)
            => /\ \A i \in 1..Len(N) :
                    norm(N[i]) \in DOMAIN maps.normalized
                      => U[LastNormalized(norm(N[i]))] \in Range(result)
               /\ (Len(N) = 1 /\ norm(N[1]) \in DOMAIN maps.normalized)
                    => result = <<U[LastNormalized(norm(N[1]))]>>
       /\ LLMAnswered
            => \A i \in AcceptedPairs :
                 U[LastLower(ToLowerCase(llmMatches[i].apiId))] \in Range(result)

\* U holds "A-B" before "a-b"; the LLM names "A-B" and the invocation
\* returns the later "a-b" alone
C33_Witness ==
  /\ LLMAnswered /\ U = <<IdABUpper, IdAB>> /\ Len(N) = 1
  /\ Len(llmMatches) = 1 /\ llmMatches[1].apiId = IdABUpper
  /\ ToLowerCase(llmMatches[1].displayName) = ToLowerCase(N[1])
  /\ result = <<IdAB>>

(***************************************************************************)
(* Properties of the candidate prefilter, under SpecPrefilter.             *)
(***************************************************************************)
\* s[i..j] is a run of characters of cls that cannot be extended
MaximalRun(s, i, j, cls) ==
  /\ 1 <= i /\ i <= j /\ j <= Len(s)
  /\ \A k \in i..j : s[k] \in cls
  /\ i = 1 \/ s[i - 1] \notin cls
  /\ j = Len(s) \/ s[j + 1] \notin cls

\* s[i..j] is a number of s: a maximal run of digits with, if one follows,
\* a period and a second maximal run of digits; the run after the period
\* of a number is not a number of its own
IsNumber(s, i, j) ==
  /\ ~(i >= 3 /\ s[i - 1] = "." /\ s[i - 2] \in Digits)
  /\ \/ /\ MaximalRun(s, i, j, Digits)
        /\ ~(j + 2 <= Len(s) /\ s[j + 1] = "." /\ s[j + 2] \in Digits)
     \/ \E d \in i..j :
          /\ MaximalRun(s, i, d, Digits)
          /\ d + 2 <= j /\ s[d + 1] = "."
          /\ MaximalRun(s, d + 2, j, Digits)

\* the significant tokens of a string: its numbers and its runs of two or
\* more letters, lowercased
SignificantTokens(str) ==
  LET s == ToLowerCase(str)
  IN  { SubSeq(s, i, j) : <<i, j>> \in
          { p \in (1..Len(s)) \X (1..Len(s)) :
              \/ IsNumber(s, p[1], p[2])
              \/ MaximalRun(s, p[1], p[2], AsciiLower) /\ p[2] > p[1] } }

\* the tokens of all names of N
NameTokens == UNION { SignificantTokens(N[i]) : i \in 1..Len(N) }

\* C34: the candidates are exactly the identifiers of U that share a
\* significant token (a number, or a run of two or more letters, lowercased)
\* with the tokens of the names of N, together with the identifiers of U
\* whose lowercase form ends in "-free"; the list holds no identifier twice.
C34_PrefilterExact ==
  pc = "calling"
    => /\ Range(candidates) =
            { u \in Range(U) :
                \/ SignificantTokens(u) \cap NameTokens # {}
                \/ EndsWith(ToLowerCase(u), <<"-","f","r","e","e">>) }
       /\ \A i, j \in 1..Len(candidates) : i # j => candidates[i] # candidates[j]

\* "Q 4" shares the number 4 with "gl-4" and no token with "X-FREE", which
\* is a candidate for its suffix alone
C34_Witness ==
  /\ pc = "calling" /\ N = <<NameQ4>> /\ U = <<IdXFreeUpper, IdGl4>>
  /\ candidates = <<IdGl4, IdXFreeUpper>>

(***************************************************************************)
(* Properties of the prompt, under Spec.                                   *)
(***************************************************************************)
\* the content of the user message of the request
UserContent == messages[2].content

\* the lines of the user message between "Display names:" and the next
\* empty line
PromptNameLines == SubSeq(UserContent, 4, 3 + Len(N))

\* the item lines of the user message after "Available API IDs:"
PromptIdLines ==
  SelectSeq(SubSeq(UserContent, 6 + Len(N), Len(UserContent)), LAMBDA l : l # <<>>)

Quoted(xs) == [i \in 1..Len(xs) |-> <<"-", " ", "\"">> \o xs[i] \o <<"\"">>]

\* C35: with a credential and a non-empty N the backend is called with one
\* prompt whose user message lists all names of N and exactly the
\* identifiers of prefilterCandidates(U, N); with no candidate the call is
\* still made, with an empty identifier list, and the invocation ends as
\* after any call: reconciliation after an answer, the deterministic result
\* after a failure.
C35_PromptCandidates ==
  (/\ entry = "matchModelsWithLLM" /\ pc # "start"
   /\ ~BadArg(apiIds) /\ ~BadArg(names) /\ Len(N) > 0 /\ hasKey)
    => /\ requests >= 1
       /\ Len(messages) = 2 /\ messages[2].role = "user"
       /\ UserContent[3] = <<"Display names:">>
       /\ UserContent[5 + Len(N)] = <<"Available API IDs:">>
       /\ PromptNameLines = Quoted(N)
       /\ PromptIdLines = Quoted(prefilterCandidates(U, N))
       /\ (LLMAnswered /\ candidates = <<>>) => Range(result) = ReconciledSet
       /\ (Returned /\ caught # NoErr /\ candidates = <<>>)
            => result = Deterministic(U, N)

\* no identifier of U is a candidate; the backend was called with an empty
\* identifier list and named an identifier of U, which was accepted
C35_Witness ==
  /\ LLMAnswered /\ U # <<>> /\ candidates = <<>>
  /\ PromptIdLines = <<>> /\ PromptNameLines = Quoted(N)
  /\ AcceptedPairs # {} /\ result # <<>>

(***************************************************************************)
(* Properties of fetchModels, under SpecFetch.                             *)
(***************************************************************************)
\* the last failure of fetchModels is a response with a status below 500
\* other than 429
NonRetryableStatus ==
  /\ fetch.lastError.kind = "status"
  /\ fetch.lastError.status < 500 /\ fetch.lastError.status # 429

\* C36: fetchModels makes at most maxRetries requests; a response with a
\* status below 500 other than 429 ends it at once, with no delay after it;
\* any other failure is followed, while attempts remain, by the delay
\* initialDelayMs * 2^(attempt-1); after maxRetries failures the terminal
\* error is raised; when fetchModels throws, the run exits with status 1 and
\* scrape() has produced no output.
C36_FetchRetry ==
  /\ fetch.requests <= maxRetries /\ fetch.attempt = fetch.requests
  /\ \A i \in 1..Len(fetch.delays) : fetch.delays[i] = initialDelayMs * 2 ^ (i - 1)
  /\ NonRetryableStatus
       => /\ fetch.pc = "threw" /\ fetch.thrown = "NonRetryableError"
          /\ Len(fetch.delays) = fetch.requests - 1
  /\ fetch.pc = "delaying"
       => /\ ~NonRetryableStatus /\ fetch.lastError.kind # "none"
          /\ Len(fetch.delays) = fetch.requests /\ fetch.requests < maxRetries
  /\ fetch.pc = "calling" => Len(fetch.delays) = fetch.requests - 1
  /\ (fetch.pc = "threw" /\ ~NonRetryableStatus)
       => /\ fetch.requests = maxRetries /\ fetch.thrown = "Error"
          /\ Len(fetch.delays) = (IF maxRetries > 0 THEN maxRetries - 1 ELSE 0)
  /\ fetch.pc = "threw"
       => /\ step = "exited" /\ exitCode = 1
          /\ output = NoOutput /\ apiModelIds = <<>>
          /\ outputFile \in {NoFile, FileOf(PreviousOutput)}
  /\ fetch.pc = "returned" => Len(fetch.delays) = fetch.requests - 1

\* a 429, a thrown fetch error and a body failing the schema: three
\* requests, delays of 1000 and 2000 ms, then the run exits with status 1
C36_Witness ==
  /\ maxRetries = 3 /\ fetch.pc = "threw" /\ fetch.requests = 3
  /\ fetch.delays = <<initialDelayMs, 2 * initialDelayMs>>
  /\ fetch.lastError.kind = "schema"
  /\ step = "exited" /\ exitCode = 1 /\ output = NoOutput

(***************************************************************************)
(* Properties of norm, under SpecPrefilter: the keys of maps.normalized    *)
(* are the values of norm on the identifiers of U.                         *)
(***************************************************************************)
\* the characters a normalized key may hold
KeyChars == AsciiLower \cup Digits \cup {"."}

\* the index has been built from U
IndexBuilt == pc = "calling" /\ maps # NoMaps

\* C37: norm is idempotent and total: norm(norm(x)) = norm(x), the value
\* holds only lowercase ASCII letters, digits and periods, and an input
\* without any such character has the empty string as its value.
C37_NormIdempotent ==
  IndexBuilt
    => /\ \A k \in DOMAIN maps.normalized : norm(k) = k /\ Range(k) \subseteq KeyChars
       /\ (\A i \in 1..Len(U) : Range(U[i]) \cap KeyChars = {})
            => DOMAIN maps.normalized \subseteq { <<>> }

\* C37, amended: norm is idempotent and total: norm(norm(x)) = norm(x), the
\* value holds only lowercase ASCII letters, digits and periods, and an
\* input whose lowercase form has no such character (no ASCII letter of
\* either case, digit or period) has the empty string as its value.
C37_NormIdempotentLowercased ==
  IndexBuilt
    => /\ Len(U) > 0 => DOMAIN maps.normalized # {}
       /\ \A k \in DOMAIN maps.normalized : norm(k) = k /\ Range(k) \subseteq KeyChars
       /\ (\A i \in 1..Len(U) : Range(ToLowerCase(U[i])) \cap KeyChars = {})
            => DOMAIN maps.normalized \subseteq { <<>> }
       /\ (\E i \in 1..Len(U) : Range(ToLowerCase(U[i])) \cap KeyChars = {})
            => <<>> \in DOMAIN maps.normalized

\* "-_" has the empty key and "X-FREE" the key "xfree"
C37_Witness ==
  /\ IndexBuilt /\ U = <<IdDashes, IdXFreeUpper>>
  /\ DOMAIN maps.normalized = { <<>>, <<"x","f","r","e","e">> }

====
